---- MODULE Spec2Model ----
(***************************************************************************)
(* Model of the additive search engine of                                  *)
(* backend/functions/src/utils/additiveSearchUtils.ts: the text            *)
(* normaliser, the keyword extractor, the match scorer, the aggregator     *)
(* and the process-wide catalog cache with its in-flight load promise.     *)
(*                                                                         *)
(* A JavaScript string is a sequence of characters; a character is a TLA+  *)
(* string: an ASCII character stands for itself, a Hangul syllable is      *)
(* written in romanised form with "x" for the silent initial ("gu",        *)
(* "xyeon", "san"), and the other non-ASCII characters carry upper-case    *)
(* names ("MIDDOT", "NBSP", "JAMO_O").  Scores are exact rationals         *)
(* <<numerator, denominator>> in lowest terms; for the string lengths of   *)
(* the model (below 17) every comparison the code makes on doubles has     *)
(* the same outcome on the rationals.                                      *)
(***************************************************************************)
EXTENDS Integers, Sequences, FiniteSets, TLC

(***************************************************************************)
(* Characters and character classes of the regular expressions             *)
(***************************************************************************)
UpperCase ==
  << "A", "B", "C", "D", "E", "F", "G", "H", "I", "J", "K", "L", "M",
     "N", "O", "P", "Q", "R", "S", "T", "U", "V", "W", "X", "Y", "Z" >>

LowerCase ==
  << "a", "b", "c", "d", "e", "f", "g", "h", "i", "j", "k", "l", "m",
     "n", "o", "p", "q", "r", "s", "t", "u", "v", "w", "x", "y", "z" >>

Digits == { "0", "1", "2", "3", "4", "5", "6", "7", "8", "9" }

\* the Hangul syllables (U+AC00..U+D7A3, the class [가-힣]) that occur in the model
HangulSyllables ==
  { "baeg", "be", "ben", "beul", "bi", "bu", "bun", "byeon", "cheol", "cheong",
    "chu", "chul", "dang", "deu", "deung", "do", "gag", "gan", "geom", "geu",
    "geul", "geum", "gi", "go", "gu", "gug", "ha", "ham", "hi", "ho",
    "hwa", "hwang", "hyang", "jan", "je", "jeog", "jeol", "jeon", "jeong", "jeu",
    "jeung", "ji", "jin", "jo", "jong", "ju", "jung", "ka", "kal", "ke",
    "keu", "kka", "ko", "mal", "mang", "mi", "mich", "min", "mu", "mul",
    "myeon", "myeong", "na", "nan", "neun", "ni", "ning", "nya", "nyeom", "pa",
    "pe", "peu", "po", "pum", "ra", "ral", "re", "reog", "ri", "ro",
    "rog", "rol", "ru", "ryang", "ryo", "ryu", "ryum", "sa", "saeg", "san",
    "seol", "seong", "seu", "si", "sig", "so", "sol", "su", "syum", "ta",
    "tam", "tan", "tang", "ten", "teu", "teum", "til", "tin", "to", "tto",
    "xa", "xag", "xal", "xan", "xeun", "xi", "xil", "xin", "xwon", "xyang",
    "xyeom", "xyeon", "xyong" }

\* \w of a JavaScript regular expression without the u flag: [A-Za-z0-9_]
WordChars ==
  { UpperCase[i] : i \in 1..26 } \cup { LowerCase[i] : i \in 1..26 } \cup Digits \cup { "_" }

\* \s: white space and line terminators; U+00A0 and U+2009 belong to it, U+200B does not
WhiteSpace == { " ", "TAB", "LF", "NBSP", "THINSP" }

\* [()[\]{}\"'] of normalizeText and normalizeAndExtractKeywords
BracketsQuotes == { "(", ")", "[", "]", "{", "}", "DQUOTE", "'" }

(***************************************************************************)
(* String primitives                                                       *)
(***************************************************************************)
LowerChar(c) ==
  IF \E i \in 1..26 : UpperCase[i] = c
  THEN LowerCase[CHOOSE i \in 1..26 : UpperCase[i] = c]
  ELSE c

toLowerCase(s) == [i \in 1..Len(s) |-> LowerChar(s[i])]

\* s.replace(/[class]/g, to) for a class of single characters
RECURSIVE ReplaceClass(_, _, _)
ReplaceClass(s, class, to) ==
  IF s = <<>> THEN <<>>
  ELSE (IF Head(s) \in class THEN to ELSE <<Head(s)>>) \o ReplaceClass(Tail(s), class, to)

\* s.replace(/[class]+/g, to): every maximal run of the class becomes one `to`
RECURSIVE ReplaceRuns(_, _, _)
ReplaceRuns(s, class, to) ==
  IF s = <<>> THEN <<>>
  ELSE IF Head(s) \in class
       THEN IF Len(s) > 1 /\ s[2] \in class
            THEN ReplaceRuns(Tail(s), class, to)
            ELSE to \o ReplaceRuns(Tail(s), class, to)
       ELSE <<Head(s)>> \o ReplaceRuns(Tail(s), class, to)

\* s.trim()
RECURSIVE trimStart(_)
trimStart(s) ==
  IF s # <<>> /\ Head(s) \in WhiteSpace THEN trimStart(Tail(s)) ELSE s

RECURSIVE trimEnd(_)
trimEnd(s) ==
  IF s # <<>> /\ s[Len(s)] \in WhiteSpace THEN trimEnd(SubSeq(s, 1, Len(s) - 1)) ELSE s

trim(s) == trimEnd(trimStart(s))

\* s.includes(sub)
includes(s, sub) ==
  \E i \in 0..(Len(s) - Len(sub)) : SubSeq(s, i + 1, i + Len(sub)) = sub

\* the set of the characters of s: new Set(s.split(''))
CharSet(s) == { s[i] : i \in 1..Len(s) }

Max(S) == CHOOSE x \in S : \A y \in S : y <= x
Min(S) == CHOOSE x \in S : \A y \in S : x <= y

(***************************************************************************)
(* Exact rational arithmetic for the scores                                *)
(***************************************************************************)
RECURSIVE GCD(_, _)
GCD(a, b) == IF b = 0 THEN a ELSE GCD(b, a % b)

Frac(n, d) == IF n = 0 THEN <<0, 1>> ELSE << n \div GCD(n, d), d \div GCD(n, d) >>

RLess(a, b) == a[1] * b[2] < b[1] * a[2]
RLeq(a, b) == a[1] * b[2] <= b[1] * a[2]
RMul(a, b) == Frac(a[1] * b[1], a[2] * b[2])
RAdd(a, b) == Frac(a[1] * b[2] + b[1] * a[2], a[2] * b[2])
RMin(a, b) == IF RLess(b, a) THEN b ELSE a

(***************************************************************************)
(* Text normaliser                                                         *)
(***************************************************************************)
\* The substitution table in the order Object.entries walks it: the
\* integer-like keys '0', '1', '5' first, in ascending order, then the other
\* keys in the order they are written.
corrections ==
  << << "0", <<"o">> >>, << "1", <<"l">> >>, << "5", <<"s">> >>,
     << "JAMO_O", <<"o">> >>, << "JAMO_M", <<"m">> >>, << "JAMO_N", <<"n">> >>,
     << "JAMO_R", <<"r">> >>, << "JAMO_S", <<"s">> >>, << "JAMO_T", <<"t">> >>,
     << "JAMO_P", <<"p">> >>, << "JAMO_H", <<"h">> >>,
     << "l", <<"1">> >>, << "o", <<"0">> >>, << "s", <<"5">> >>,
     << "MIDDOT", <<>> >>, << "BULLET", <<>> >>,
     << "FWHYPHEN", <<"-">> >>, << "EMDASH", <<"-">> >>,
     << "NBSP", <<" ">> >>, << "THINSP", <<" ">> >>, << "ZWSP", <<>> >> >>

\* the forEach over the table: one global replace after the other
RECURSIVE ApplyCorrections(_, _)
ApplyCorrections(text, k) ==
  IF k > Len(corrections) THEN text
  ELSE ApplyCorrections(ReplaceClass(text, {corrections[k][1]}, corrections[k][2]), k + 1)

correctOCRErrors(text) == ApplyCorrections(text, 1)

\* s.replace(/[^class]/, ''): without the g flag only the first match goes
RECURSIVE DropFirstOutside(_, _)
DropFirstOutside(s, class) ==
  IF s = <<>> THEN <<>>
  ELSE IF Head(s) \notin class THEN Tail(s)
  ELSE << Head(s) >> \o DropFirstOutside(Tail(s), class)

\* the normaliser with the g flag left off its last replace
normalizeText_ReplacesOnce(text) ==
  LET lowered    == toLowerCase(text)
      noBrackets == ReplaceClass(lowered, BracketsQuotes, <<>>)
      noSpaces   == ReplaceClass(noBrackets, WhiteSpace \cup {"-", "_", "MIDDOT", "BULLET"}, <<>>)
  IN  DropFirstOutside(noSpaces, WordChars \cup HangulSyllables)

normalizeText(text) ==
  LET lowered    == toLowerCase(text)
      noBrackets == ReplaceClass(lowered, BracketsQuotes, <<>>)
      noSpaces   == ReplaceClass(noBrackets, WhiteSpace \cup {"-", "_", "MIDDOT", "BULLET"}, <<>>)
  IN  SelectSeq(noSpaces, LAMBDA c : c \in WordChars \cup HangulSyllables)

\* Jaccard similarity of the character sets plus the substring bonus, from
\* the two normalised forms (they differ, so the union is not empty)
JaccardWithBonus(set1, set2, isSubstring) ==
  RMin(<<1, 1>>,
       RAdd(Frac(Cardinality(set1 \cap set2), Cardinality(set1 \cup set2)),
            IF isSubstring THEN <<1, 5>> ELSE <<0, 1>>))

SimilarityOfNormalized(normalized1, normalized2) ==
  IF normalized1 = normalized2 THEN <<1, 1>>
  ELSE JaccardWithBonus(CharSet(normalized1), CharSet(normalized2),
                        includes(normalized1, normalized2) \/ includes(normalized2, normalized1))

calculateStringSimilarity(s1, s2) ==
  IF s1 = s2 THEN <<1, 1>>
  ELSE IF Len(s1) = 0 \/ Len(s2) = 0 THEN <<0, 1>>
  ELSE SimilarityOfNormalized(normalizeText(correctOCRErrors(s1)),
                              normalizeText(correctOCRErrors(s2)))

(***************************************************************************)
(* Keyword extractor                                                       *)
(***************************************************************************)
importantAdditiveKeywords ==
  << <<"san", "do", "jo", "jeol", "je">>, <<"hyang", "mi", "jeung", "jin", "je">>, <<"gu", "xa", "geom">>,
     <<"jan", "tan", "geom">>, <<"jeon", "bun">>, <<"byeon", "seong", "jeon", "bun">>,
     <<"geul", "ru", "ten">>, <<"xin", "san">>, <<"po", "do", "dang">>,
     <<"jeong", "baeg", "dang">>, <<"to", "ko", "pe", "rol">>, <<"bi", "ta", "min">>,
     <<"xi", "seu", "teu">> >>

commonWords ==
  << <<"a", "n", "d">>, <<"o", "r">>, <<"t", "h", "e">>, <<"a">>,
     <<"a", "n">>, <<"i", "n">>, <<"o", "n">>, <<"a", "t">>,
     <<"t", "o">>, <<"f", "o", "r">>, <<"o", "f">>, <<"w", "i", "t", "h">>,
     <<"c", "o", "n", "t", "a", "i", "n", "s">>, <<"i", "n", "c", "l", "u", "d", "e", "s">>, <<"l", "e", "s", "s">>, <<"t", "h", "a", "n">>,
     <<"m", "o", "r", "e">>, <<"e", "a", "c", "h">>, <<"p", "e", "r">>, <<"t", "o", "t", "a", "l">>,
     <<"geu", "ri", "go">>, <<"tto", "neun">>, <<"mich">>, <<"deung">>,
     <<"po", "ham">>, <<"ham", "ryang">>, <<"xi", "ha">>, <<"gi", "ta">>,
     <<"gag", "jong">>, <<"sa", "xyong">>, <<"je", "pum">>, <<"sig", "pum">>,
     <<"gug", "san">>, <<"jung", "gug", "san">>, <<"mi", "gug", "san">>, <<"ho", "ju", "san">>,
     <<"mal", "re", "xi", "si", "xa", "san">>, <<"myeon", "ryu">>, <<"seu", "peu", "ryu">>, <<"beul", "reog">>,
     <<"bun", "mal">>, <<"chu", "chul", "mul">>, <<"si", "jeu", "ning">>, <<"be", "xi", "seu">>,
     <<"xyang", "nyeom">>, <<"xil", "kka", "ji">>, <<"ke", "xi">>, <<"ham", "xeun">>,
     <<"xwon", "ryo", "myeong">> >>

SeqToSet(s) == { s[i] : i \in 1..Len(s) }

\* the whitelist test answering true: a whitelisted word is filtered out
isCommonWord_WhitelistBlocks(word) ==
  IF \E k \in 1..Len(importantAdditiveKeywords) :
       \/ includes(toLowerCase(word), toLowerCase(importantAdditiveKeywords[k]))
       \/ includes(toLowerCase(importantAdditiveKeywords[k]), toLowerCase(word))
  THEN TRUE
  ELSE toLowerCase(word) \in SeqToSet(commonWords)

isCommonWord(word) ==
  IF \E k \in 1..Len(importantAdditiveKeywords) :
       \/ includes(toLowerCase(word), toLowerCase(importantAdditiveKeywords[k]))
       \/ includes(toLowerCase(importantAdditiveKeywords[k]), toLowerCase(word))
  THEN FALSE
  ELSE toLowerCase(word) \in SeqToSet(commonWords)

\* [,\n;:·•\-\/\|\s()[\]{}] of the split
Delimiters ==
  { ",", "LF", ";", ":", "MIDDOT", "BULLET", "-", "/", "|", "(", ")", "[", "]", "{", "}" }
    \cup WhiteSpace

\* the characters [\w가-힣\s,;:·•\-] the third replace keeps
KeptChars ==
  WordChars \cup HangulSyllables \cup WhiteSpace \cup { ",", ";", ":", "MIDDOT", "BULLET", "-" }

\* every character the model's strings are drawn from
AllChars ==
  KeptChars \cup Delimiters \cup BracketsQuotes
    \cup { corrections[k][1] : k \in 1..Len(corrections) }
    \cup { "!", "%", "*", "+", ".", "BSLASH" }

\* s.split(/[class]+/): the pieces between the maximal runs of the class,
\* with the empty pieces at either end
RECURSIVE SplitFrom(_, _, _, _)
SplitFrom(s, class, i, cur) ==
  IF i > Len(s) THEN << cur >>
  ELSE IF s[i] \in class
       THEN IF i > 1 /\ s[i - 1] \in class
            THEN SplitFrom(s, class, i + 1, cur)
            ELSE << cur >> \o SplitFrom(s, class, i + 1, <<>>)
       ELSE SplitFrom(s, class, i + 1, Append(cur, s[i]))

split(s, class) == SplitFrom(s, class, 1, <<>>)

\* s.match(/[class]{2,}/g) || []: the maximal runs of length 2 or more
RECURSIVE MatchRunsFrom(_, _, _, _)
MatchRunsFrom(s, class, i, cur) ==
  LET run == IF Len(cur) >= 2 THEN << cur >> ELSE <<>>
  IN  IF i > Len(s) THEN run
      ELSE IF s[i] \in class
           THEN MatchRunsFrom(s, class, i + 1, Append(cur, s[i]))
           ELSE run \o MatchRunsFrom(s, class, i + 1, <<>>)

matchRuns(s, class) == MatchRunsFrom(s, class, 1, <<>>)

\* the last index of the maximal run of the class that starts at i (i - 1 if none)
RECURSIVE RunEnd(_, _, _)
RunEnd(s, i, class) ==
  IF i <= Len(s) /\ s[i] \in class THEN RunEnd(s, i + 1, class) ELSE i - 1

\* the three groups of the match that starts at i, every group greedy
GroupsBetween(keyword, i, e1, e2, e3) ==
  << SubSeq(keyword, i, e1), SubSeq(keyword, e1 + 1, e2), SubSeq(keyword, e2 + 1, e3) >>

GroupsFromDigits(keyword, i, e1, e2) ==
  GroupsBetween(keyword, i, e1, e2, RunEnd(keyword, e2 + 1, HangulSyllables))

GroupsFromHangul(keyword, i, e1) ==
  GroupsFromDigits(keyword, i, e1, RunEnd(keyword, e1 + 1, Digits))

GroupsAt(keyword, i) == GroupsFromHangul(keyword, i, RunEnd(keyword, i, HangulSyllables))

\* a match of /([가-힣]+)(\d+)/ can start at i
MatchStartsAt(keyword, i, e1) ==
  keyword[i] \in HangulSyllables /\ e1 < Len(keyword) /\ keyword[e1 + 1] \in Digits

FirstOf(keyword, starts) == IF starts = {} THEN <<>> ELSE GroupsAt(keyword, Min(starts))

\* keyword.match(/([가-힣]+)(\d+)([가-힣]*)/): the leftmost match;
\* <<>> when there is none, else << group1, group2, group3 >>
match1(keyword) ==
  FirstOf(keyword,
          { i \in 1..Len(keyword) :
              MatchStartsAt(keyword, i, RunEnd(keyword, i, HangulSyllables)) })

\* the forEach pushing the matching keyword alone
PartsOf_WholeOnly(keyword, m) == IF m = <<>> THEN <<>> ELSE << keyword >>

\* the pushes one keyword makes into numberedAdditives
PartsOf(keyword, m) ==
  IF m = <<>> THEN <<>>
  ELSE << keyword >>
       \o (IF Len(m[1]) > 1 THEN << m[1] >> ELSE <<>>)
       \o (IF Len(m[3]) > 0 THEN << m[2] \o m[3] >> ELSE <<>>)

numberedParts(keyword) == PartsOf(keyword, match1(keyword))

\* the forEach that fills numberedAdditives
RECURSIVE NumberedAdditives(_)
NumberedAdditives(keywords) ==
  IF keywords = <<>> THEN <<>>
  ELSE numberedParts(Head(keywords)) \o NumberedAdditives(Tail(keywords))

\* the forEach that fills spacelessWords
RECURSIVE SpacelessWords(_)
SpacelessWords(words) ==
  IF words = <<>> THEN <<>>
  ELSE (IF includes(Head(words), <<" ">>)
        THEN << ReplaceRuns(Head(words), WhiteSpace, <<>>) >> ELSE <<>>)
       \o SpacelessWords(Tail(words))

\* [...new Set(s)]: the first occurrence of every element, in order
RECURSIVE UniqueFrom(_, _, _)
UniqueFrom(s, i, seen) ==
  IF i > Len(s) THEN seen
  ELSE IF s[i] \in SeqToSet(seen) THEN UniqueFrom(s, i + 1, seen)
  ELSE UniqueFrom(s, i + 1, Append(seen, s[i]))

Unique(s) == UniqueFrom(s, 1, <<>>)

\* x put behind the first k elements of a sorted list
InsertAt(sorted, x, k) == SubSeq(sorted, 1, k) \o << x >> \o SubSeq(sorted, k + 1, Len(sorted))

\* the stable sort by (a, b) => b.length - a.length
RECURSIVE SortByLengthDescFrom(_, _, _)
SortByLengthDescFrom(s, i, sorted) ==
  IF i > Len(s) THEN sorted
  ELSE SortByLengthDescFrom(s, i + 1,
         InsertAt(sorted, s[i],
                        Cardinality({ j \in 1..Len(sorted) : Len(sorted[j]) >= Len(s[i]) })))

SortByLengthDesc(s) == SortByLengthDescFrom(s, 1, <<>>)

slice(s, from, to) == SubSeq(s, from + 1, IF to < Len(s) THEN to ELSE Len(s))

MaxExtractedKeywords == 15

\* the constant normalized: lower case, brackets and quotes to spaces, runs
\* of white space to one space, every character that is not kept to a space
NormalizedOf(correctedText) ==
  trim(ReplaceClass(
         ReplaceRuns(ReplaceClass(toLowerCase(correctedText), BracketsQuotes, <<" ">>),
                     WhiteSpace, <<" ">>),
         AllChars \ KeptChars, <<" ">>))

\* the map and the two filters behind the split
TokensToKeywords(tokens) ==
  SelectSeq(SelectSeq([ i \in 1..Len(tokens) |-> trim(tokens[i]) ],
                      LAMBDA keyword : Len(keyword) > 1),
            LAMBDA keyword : ~isCommonWord(keyword))

RawKeywords(text) ==
  TokensToKeywords(split(NormalizedOf(correctOCRErrors(text)), Delimiters))

\* allKeywords sorted and cut without the Set
CombineKeywords_KeepsDuplicates(rawKeywords, koreanWords) ==
  slice(SortByLengthDesc(
          SelectSeq(rawKeywords
                      \o SelectSeq(koreanWords,
                                   LAMBDA word : Len(word) > 1 /\ ~isCommonWord(word))
                      \o NumberedAdditives(rawKeywords \o koreanWords)
                      \o SpacelessWords(rawKeywords),
                    LAMBDA keyword : Len(keyword) > 1)),
        0, MaxExtractedKeywords)

\* allKeywords, then uniqueKeywords
CombineKeywords(rawKeywords, koreanWords) ==
  slice(SortByLengthDesc(
          SelectSeq(Unique(rawKeywords
                             \o SelectSeq(koreanWords,
                                          LAMBDA word : Len(word) > 1 /\ ~isCommonWord(word))
                             \o NumberedAdditives(rawKeywords \o koreanWords)
                             \o SpacelessWords(rawKeywords)),
                    LAMBDA keyword : Len(keyword) > 1)),
        0, MaxExtractedKeywords)

normalizeAndExtractKeywords(text) ==
  CombineKeywords(RawKeywords(text), matchRuns(text, HangulSyllables))

(***************************************************************************)
(* Match scorer                                                            *)
(***************************************************************************)
\* the accumulator of the loop over one entry's search terms: bestMatch is
\* null while found is FALSE; stop is the break of the exact strategy
NoBest ==
  [ found |-> FALSE, bestScore |-> <<0, 1>>, stop |-> FALSE,
    bestMatch |-> [ matchType |-> "none", matchScore |-> <<0, 1>>, matchedTerm |-> <<>> ] ]

MatchOf(matchType, matchScore, keyword) ==
  [ matchType |-> matchType, matchScore |-> matchScore, matchedTerm |-> keyword ]

\* a candidate replaces the best match when its score is higher
TakeIfBetter(st, matchType, score, keyword) ==
  IF RLess(st.bestScore, score)
  THEN [ st EXCEPT !.found = TRUE, !.bestScore = score,
                   !.bestMatch = MatchOf(matchType, score, keyword) ]
  ELSE st

\* Math.min(0.9, (shorterLength / longerLength) * 0.85)
PartialScore(lengths) == RMin(<<9, 10>>, RMul(Frac(Min(lengths), Max(lengths)), <<17, 20>>))

\* the fuzzy strategy scoring the similarity itself, without the 0.7
FuzzyStep_Unscaled(keyword, st, similarity) ==
  IF RLeq(IF Len(keyword) > 4 THEN <<3, 10>> ELSE <<1, 2>>, similarity)
  THEN TakeIfBetter(st, "fuzzy", similarity, keyword)
  ELSE st

\* the fuzzy strategy with the threshold of the long keywords for every keyword
FuzzyStep_FlatThreshold(keyword, st, similarity) ==
  IF RLeq(<<3, 10>>, similarity)
  THEN TakeIfBetter(st, "fuzzy", RMul(similarity, <<7, 10>>), keyword)
  ELSE st

\* Strategy 4: similarity >= threshold && similarity * 0.7 > bestScore
FuzzyStep(keyword, st, similarity) ==
  IF RLeq(IF Len(keyword) > 4 THEN <<3, 10>> ELSE <<1, 2>>, similarity)
  THEN TakeIfBetter(st, "fuzzy", RMul(similarity, <<7, 10>>), keyword)
  ELSE st

\* the fuzzy strategy tried before the partial one
ScoreNormalized_FuzzyBeforePartial(keyword, searchTerm, normalizedKeyword, normalizedSearchTerm, st) ==
  IF searchTerm = toLowerCase(keyword)
  THEN [ st EXCEPT !.found = TRUE, !.stop = TRUE,
                   !.bestMatch = MatchOf("exact", <<1, 1>>, keyword) ]
  ELSE IF normalizedSearchTerm = normalizedKeyword /\ Len(normalizedKeyword) > 2
  THEN TakeIfBetter(st, "normalized_exact", <<19, 20>>, keyword)
  ELSE IF RLeq(IF Len(keyword) > 4 THEN <<3, 10>> ELSE <<1, 2>>,
               calculateStringSimilarity(keyword, searchTerm))
  THEN FuzzyStep(keyword, st, calculateStringSimilarity(keyword, searchTerm))
  ELSE IF \/ includes(searchTerm, toLowerCase(keyword))
          \/ includes(normalizedSearchTerm, normalizedKeyword)
          \/ includes(toLowerCase(keyword), searchTerm)
          \/ includes(normalizedKeyword, normalizedSearchTerm)
  THEN TakeIfBetter(st, "partial",
                    PartialScore({ Len(searchTerm), Len(keyword),
                                   Len(normalizedSearchTerm), Len(normalizedKeyword) }),
                    keyword)
  ELSE st

\* the normalized exact strategy without its length guard
ScoreNormalized_NoLengthGuard(keyword, searchTerm, normalizedKeyword, normalizedSearchTerm, st) ==
  IF searchTerm = toLowerCase(keyword)
  THEN [ st EXCEPT !.found = TRUE, !.stop = TRUE,
                   !.bestMatch = MatchOf("exact", <<1, 1>>, keyword) ]
  ELSE IF normalizedSearchTerm = normalizedKeyword
  THEN TakeIfBetter(st, "normalized_exact", <<19, 20>>, keyword)
  ELSE IF \/ includes(searchTerm, toLowerCase(keyword))
          \/ includes(normalizedSearchTerm, normalizedKeyword)
          \/ includes(toLowerCase(keyword), searchTerm)
          \/ includes(normalizedKeyword, normalizedSearchTerm)
  THEN TakeIfBetter(st, "partial",
                    PartialScore({ Len(searchTerm), Len(keyword),
                                   Len(normalizedSearchTerm), Len(normalizedKeyword) }),
                    keyword)
  ELSE FuzzyStep(keyword, st, calculateStringSimilarity(keyword, searchTerm))

\* the partial score from the lengths of the raw strings alone
ScoreNormalized_RawLengths(keyword, searchTerm, normalizedKeyword, normalizedSearchTerm, st) ==
  IF searchTerm = toLowerCase(keyword)
  THEN [ st EXCEPT !.found = TRUE, !.stop = TRUE,
                   !.bestMatch = MatchOf("exact", <<1, 1>>, keyword) ]
  ELSE IF normalizedSearchTerm = normalizedKeyword /\ Len(normalizedKeyword) > 2
  THEN TakeIfBetter(st, "normalized_exact", <<19, 20>>, keyword)
  ELSE IF \/ includes(searchTerm, toLowerCase(keyword))
          \/ includes(normalizedSearchTerm, normalizedKeyword)
          \/ includes(toLowerCase(keyword), searchTerm)
          \/ includes(normalizedKeyword, normalizedSearchTerm)
  THEN TakeIfBetter(st, "partial", PartialScore({ Len(searchTerm), Len(keyword) }), keyword)
  ELSE FuzzyStep(keyword, st, calculateStringSimilarity(keyword, searchTerm))

\* one pass through the body of the loop over allSearchTerms, with the
\* normalised forms of the keyword and of the search term (the matchDetails
\* text of the partial and fuzzy matches is left out)
ScoreNormalized(keyword, searchTerm, normalizedKeyword, normalizedSearchTerm, st) ==
  IF searchTerm = toLowerCase(keyword)
  THEN \* Strategy 1: exact match; bestScore stays as it is, break
       [ st EXCEPT !.found = TRUE, !.stop = TRUE,
                   !.bestMatch = MatchOf("exact", <<1, 1>>, keyword) ]
  ELSE IF normalizedSearchTerm = normalizedKeyword /\ Len(normalizedKeyword) > 2
  THEN \* Strategy 2: normalized exact match, continue
       TakeIfBetter(st, "normalized_exact", <<19, 20>>, keyword)
  ELSE IF \/ includes(searchTerm, toLowerCase(keyword))
          \/ includes(normalizedSearchTerm, normalizedKeyword)
          \/ includes(toLowerCase(keyword), searchTerm)
          \/ includes(normalizedKeyword, normalizedSearchTerm)
  THEN \* Strategy 3: partial match, continue
       TakeIfBetter(st, "partial",
                    PartialScore({ Len(searchTerm), Len(keyword),
                                   Len(normalizedSearchTerm), Len(normalizedKeyword) }),
                    keyword)
  ELSE FuzzyStep(keyword, st, calculateStringSimilarity(keyword, searchTerm))

ScoreTerm(keyword, searchTerm, st) ==
  ScoreNormalized(keyword, searchTerm, normalizeText(correctOCRErrors(keyword)),
                  normalizeText(correctOCRErrors(searchTerm)), st)

\* the loop over the search terms without the break of the exact strategy
RECURSIVE ScoreTerms_NoBreak(_, _, _, _)
ScoreTerms_NoBreak(keyword, allSearchTerms, k, st) ==
  IF k > Len(allSearchTerms) THEN st
  ELSE ScoreTerms_NoBreak(keyword, allSearchTerms, k + 1,
                          ScoreTerm(keyword, allSearchTerms[k], st))

\* for (const searchTerm of allSearchTerms): the break of the exact
\* strategy leaves this loop, the loop over the additives goes on
RECURSIVE ScoreTerms(_, _, _, _)
ScoreTerms(keyword, allSearchTerms, k, st) ==
  IF k > Len(allSearchTerms) \/ st.stop THEN st
  ELSE ScoreTerms(keyword, allSearchTerms, k + 1, ScoreTerm(keyword, allSearchTerms[k], st))

\* (additive.name as string).toLowerCase() and (additive.aliases as string[]).map
\* raise a TypeError on an entry without name or without aliases
EntryThrows(additive) ==
  "name" \notin DOMAIN additive \/ "aliases" \notin DOMAIN additive

\* the emit test without the floor
EmitBest_NoFloor(additive, st) ==
  IF st.found THEN << st.bestMatch @@ additive >> ELSE <<>>

\* if (bestMatch && bestScore > 0.2) matches.push({ ...additive, ...bestMatch })
EmitBest(additive, st) ==
  IF st.found /\ RLess(<<1, 5>>, st.bestScore) THEN << st.bestMatch @@ additive >> ELSE <<>>

\* [additiveName, ...aliases], lower-cased
AllSearchTerms(additive) ==
  << toLowerCase(additive.name) >>
    \o [ i \in 1..Len(additive.aliases) |-> toLowerCase(additive.aliases[i]) ]

\* the body of the loop over the additives: the matches one entry contributes
ScoreAdditive(keyword, additive) ==
  EmitBest(additive, ScoreTerms(keyword, AllSearchTerms(additive), 1, NoBest))

\* the loop over the additives passing over an entry without name or aliases
RECURSIVE FindFrom_SkipsMalformed(_, _, _, _)
FindFrom_SkipsMalformed(keyword, additives, i, matches) ==
  IF i > Len(additives) THEN [ threw |-> FALSE, value |-> matches ]
  ELSE IF EntryThrows(additives[i])
  THEN FindFrom_SkipsMalformed(keyword, additives, i + 1, matches)
  ELSE FindFrom_SkipsMalformed(keyword, additives, i + 1,
                               matches \o ScoreAdditive(keyword, additives[i]))

\* [ threw, value ]: threw when an entry raised, else the matches in catalog order
RECURSIVE FindFrom(_, _, _, _)
FindFrom(keyword, additives, i, matches) ==
  IF i > Len(additives) THEN [ threw |-> FALSE, value |-> matches ]
  ELSE IF EntryThrows(additives[i]) THEN [ threw |-> TRUE, value |-> <<>> ]
  ELSE FindFrom(keyword, additives, i + 1, matches \o ScoreAdditive(keyword, additives[i]))

findAdditiveMatches(keyword, additives) == FindFrom(keyword, additives, 1, <<>>)

(***************************************************************************)
(* Candidate aggregator                                                    *)
(***************************************************************************)
\* the duplicate filter with its comparison turned round: the weaker match stays
RECURSIVE UniqueMapFrom_KeepsLowest(_, _, _)
UniqueMapFrom_KeepsLowest(additives, i, uniqueMap) ==
  IF i > Len(additives) THEN uniqueMap
  ELSE LET additive == additives[i]
           at == { j \in 1..Len(uniqueMap) : uniqueMap[j].id = additive.id }
       IN  IF at = {}
           THEN UniqueMapFrom_KeepsLowest(additives, i + 1, Append(uniqueMap, additive))
           ELSE LET j == CHOOSE j \in at : TRUE
                IN  IF RLess(additive.matchScore, uniqueMap[j].matchScore)
                    THEN UniqueMapFrom_KeepsLowest(additives, i + 1,
                                                   [ uniqueMap EXCEPT ![j] = additive ])
                    ELSE UniqueMapFrom_KeepsLowest(additives, i + 1, uniqueMap)

\* uniqueMap: one value per id, in the order the ids were first inserted
RECURSIVE UniqueMapFrom(_, _, _)
UniqueMapFrom(additives, i, uniqueMap) ==
  IF i > Len(additives) THEN uniqueMap
  ELSE LET additive == additives[i]
           at == { j \in 1..Len(uniqueMap) : uniqueMap[j].id = additive.id }
       IN  IF at = {}
           THEN UniqueMapFrom(additives, i + 1, Append(uniqueMap, additive))
           ELSE LET j == CHOOSE j \in at : TRUE
                IN  IF RLess(uniqueMap[j].matchScore, additive.matchScore)
                    THEN UniqueMapFrom(additives, i + 1, [ uniqueMap EXCEPT ![j] = additive ])
                    ELSE UniqueMapFrom(additives, i + 1, uniqueMap)

\* hazardOrder[x.hazard_level] ?? 3
hazardOrder(a) ==
  IF "hazard_level" \notin DOMAIN a THEN 3
  ELSE IF a.hazard_level = "high" THEN 0
  ELSE IF a.hazard_level = "medium" THEN 1
  ELSE IF a.hazard_level = "low" THEN 2
  ELSE 3

\* the comparator without its secondary key
SortsAfter_ScoreOnly(a, b) == RLess(a.matchScore, b.matchScore)

\* the comparator of the sort: TRUE when it returns a positive number,
\* which puts b before a
SortsAfter(a, b) ==
  IF b.matchScore # a.matchScore
  THEN RLess(a.matchScore, b.matchScore)
  ELSE hazardOrder(a) > hazardOrder(b)

\* Array.prototype.sort is stable: an element goes behind every element
\* the comparator does not put after it
RECURSIVE StableSortFrom(_, _, _)
StableSortFrom(s, i, sorted) ==
  IF i > Len(s) THEN sorted
  ELSE StableSortFrom(s, i + 1,
         InsertAt(sorted, s[i],
                        Cardinality({ j \in 1..Len(sorted) : ~SortsAfter(sorted[j], s[i]) })))

StableSort(s) == StableSortFrom(s, 1, <<>>)

removeDuplicatesAndSort(additives) == StableSort(UniqueMapFrom(additives, 1, <<>>))

MaxKeywords == 8
MaxScoredKeywords == 6
EarlyExitMatches == 10
MaxResults == 8

\* the keyword loop: [ threw, value ] with the foundAdditives collected
RECURSIVE CollectFrom(_, _, _, _)
RECURSIVE CollectStep(_, _, _, _, _)
\* the keyword loop without its early exit
CollectStep_NoExit(keywords, allAdditives, k, foundAdditives, matches) ==
  IF matches.threw THEN [ threw |-> TRUE, value |-> <<>> ]
  ELSE CollectFrom(keywords, allAdditives, k + 1, foundAdditives \o matches.value)

CollectStep(keywords, allAdditives, k, foundAdditives, matches) ==
  IF matches.threw THEN [ threw |-> TRUE, value |-> <<>> ]
  ELSE IF Len(foundAdditives) + Len(matches.value) >= EarlyExitMatches
  THEN [ threw |-> FALSE, value |-> foundAdditives \o matches.value ]
  ELSE CollectFrom(keywords, allAdditives, k + 1, foundAdditives \o matches.value)

CollectFrom(keywords, allAdditives, k, foundAdditives) ==
  IF k > Len(keywords) THEN [ threw |-> FALSE, value |-> foundAdditives ]
  ELSE CollectStep(keywords, allAdditives, k, foundAdditives,
                   findAdditiveMatches(keywords[k], allAdditives))

\* every keyword the first slice keeps is scored
ScoredKeywords_NoCap(text) == slice(normalizeAndExtractKeywords(text), 0, MaxKeywords)

\* the keywords a search scores
ScoredKeywords(text) ==
  slice(slice(normalizeAndExtractKeywords(text), 0, MaxKeywords), 0, MaxScoredKeywords)

\* foundAdditives of a search of the string text
FoundAdditives(text, allAdditives) == CollectFrom(ScoredKeywords(text), allAdditives, 1, <<>>)

\* removeDuplicatesAndSort(foundAdditives) without the slice(0, 8)
SearchReturns_NoTruncate(found) ==
  IF found.threw THEN [ threw |-> TRUE, value |-> <<>>, found |-> <<>> ]
  ELSE [ threw |-> FALSE, value |-> removeDuplicatesAndSort(found.value),
         found |-> found.value ]

\* removeDuplicatesAndSort(foundAdditives).slice(0, 8), from what the
\* keyword loop left; found is foundAdditives
SearchReturns(found) ==
  IF found.threw THEN [ threw |-> TRUE, value |-> <<>>, found |-> <<>> ]
  ELSE [ threw |-> FALSE,
         value |-> slice(removeDuplicatesAndSort(found.value), 0, MaxResults),
         found |-> found.value ]

\* The try block after the catalog is there.  An input is [ type, value ]:
\* type is the typeof of the argument and value the characters of a string;
\* corrected.replace raises a TypeError on anything but a string.
SearchBody(input, allAdditives) ==
  IF input.type # "string" THEN [ threw |-> TRUE, value |-> <<>>, found |-> <<>> ]
  ELSE SearchReturns(FoundAdditives(input.value, allAdditives))

\* a catch block that throws the error on
SearchSettles_Rethrows(body) ==
  IF body.threw
  THEN [ state |-> "rejected", value |-> <<>>, caught |-> TRUE ]
  ELSE [ state |-> "fulfilled", value |-> body.value, caught |-> FALSE ]

\* try { ... } catch (error) { return []; }: how the promise of the search settles
SearchSettles(body) ==
  IF body.threw
  THEN [ state |-> "fulfilled", value |-> <<>>, caught |-> TRUE ]
  ELSE [ state |-> "fulfilled", value |-> body.value, caught |-> FALSE ]

(***************************************************************************)
(* Catalogs and inputs                                                     *)
(***************************************************************************)
\* the bundled snapshot: four of the entries of seedData.ts, with the
\* fields the search reads
additiveData ==
  << [id |-> "sodium-benzoate", name |-> <<"xan", "sig", "hyang", "san", "na", "teu", "ryum">>, hazard_level |-> "medium", aliases |-> <<<<"xan", "sig", "hyang", "san", "na", "teu", "ryum">>, <<"ben", "jo", "san", "na", "teu", "ryum">>>>],
     [id |-> "citric-acid", name |-> <<"gu", "xyeon", "san">>, hazard_level |-> "low", aliases |-> <<<<"gu", "xyeon", "san">>>>],
     [id |-> "red-dye-40", name |-> <<"jeog", "saeg", " ", "4", "0", "ho">>, hazard_level |-> "high", aliases |-> <<<<"jeog", "saeg", "4", "0", "ho">>, <<"xal", "ru", "ra", "re", "deu">>>>],
     [id |-> "bha", name |-> <<"B", "H", "A">>, hazard_level |-> "high", aliases |-> <<<<"bu", "til", "hwa", "hi", "deu", "rog", "si", "xa", "ni", "sol">>>>] >>

\* the catalog of the exact-hit scenario
CatalogCitric ==
  << [id |-> "citric-acid", name |-> <<"gu", "xyeon", "san">>, hazard_level |-> "low", aliases |-> <<>>] >>

\* ten entries around one name: more matches than a search returns, equal
\* scores under different hazard levels, an entry without hazard level and
\* one with an unknown level
CatalogMany ==
  << [id |-> "m1", name |-> <<"gu", "xyeon", "san">>, hazard_level |-> "low", aliases |-> <<>>],
     [id |-> "m2", name |-> <<"gu", "xyeon", "san", "na", "teu", "ryum">>, hazard_level |-> "high", aliases |-> <<<<"gu", "xyeon", "san">>>>],
     [id |-> "m3", name |-> <<"gu", "xyeon", "san", "kal", "ryum">>, hazard_level |-> "medium", aliases |-> <<>>],
     [id |-> "m4", name |-> <<"gu", "xyeon", "san", "kal", "syum">>, hazard_level |-> "high", aliases |-> <<>>],
     [id |-> "m5", name |-> <<"gu", "xyeon", "san", "cheol">>, aliases |-> <<>>],
     [id |-> "m6", name |-> <<"gu", "xyeon", "san", "xyeom">>, hazard_level |-> "low", aliases |-> <<>>],
     [id |-> "m7", name |-> <<"mu", "su", "gu", "xyeon", "san">>, hazard_level |-> "medium", aliases |-> <<>>],
     [id |-> "m8", name |-> <<"gu", "xyeon", "san", "xa", "xyeon">>, hazard_level |-> "low", aliases |-> <<>>],
     [id |-> "m9", name |-> <<"gu", "xyeon", "san", "mang", "gan">>, hazard_level |-> "none", aliases |-> <<>>],
     [id |-> "m10", name |-> <<"S", "a", "l", "t">>, hazard_level |-> "medium", aliases |-> <<<<"so", "geum">>>>] >>

\* a document without name among well-formed ones
CatalogMalformed ==
  << CatalogCitric[1],
     [ id |-> "broken", hazard_level |-> "low", aliases |-> <<>> ] >>

\* what the additives collection may hold when the fetch succeeds
LiveCatalogs == { CatalogCitric, CatalogMany, CatalogMalformed }

\* every catalog the cache can come to hold
Catalogs == LiveCatalogs \cup { additiveData }

Text1 == <<"gu", "xyeon", "san">>  \* \uad6c\uc5f0\uc0b0
Text2 == <<"gu", "xyeon", "san", ",", " ", "gu", "xyeon">>  \* \uad6c\uc5f0\uc0b0, \uad6c\uc5f0
Text3 == <<"gu", "xyeon", "xag">>  \* \uad6c\uc5f0\uc545
Text4 == <<>>  \* 
Text5 == <<"jeog", "saeg", "4", "0", "ho">>  \* \uc801\uc0c940\ud638
Text6 == <<"S", "a", "l", "t", " ", "gu", "xyeon">>  \* Salt \uad6c\uc5f0

Str(s) == [ type |-> "string", value |-> s ]

\* the arguments the callers pass: strings, and null in place of a string
Inputs ==
  { Str(Text1), Str(Text2), Str(Text3), Str(Text4), Str(Text5), Str(Text6),
    [ type |-> "null", value |-> <<>> ] }

\* the searches of the model, each evaluated once
Searches == [ input \in Inputs, allAdditives \in Catalogs |-> SearchBody(input, allAdditives) ]

(***************************************************************************)
(* Catalog cache and the callers of the search                             *)
(***************************************************************************)
NumCallers == 2
MaxPromises == 2

Callers == 1..NumCallers

\* what db.collection('additives').get() settles with: a rejection, or a
\* snapshot whose docs are already written as { id: doc.id, ...doc.data() }
FetchResults ==
  { [ kind |-> "rejected", docs |-> <<>> ], [ kind |-> "ok", docs |-> <<>> ] }
    \cup { [ kind |-> "ok", docs |-> cat ] : cat \in LiveCatalogs }

VARIABLES
  additivesCache,    \* <<>> for null, << catalog >> once loaded
  cacheLoadPromise,  \* 0 for null, else the index of the load promise in promises
  promises,          \* the load promises created so far: [ state, value, fetch ]
  fetchCount,        \* the number of get() calls that reached the store
  callers,           \* per caller: where its search call stands
  unit,              \* a direct call of one function: [ fn, arg, done, out ]
  job                \* per image-search request: its handler and its scanResults document

vars == << additivesCache, cacheLoadPromise, promises, fetchCount, callers, unit, job >>

NumJobs == 2
Jobs == 1..NumJobs

\* no request yet: no response, no document scanResults/jobId, nothing logged
NoJob ==
  [ pc |-> "idle", status |-> "none", response |-> "none", threw |-> "none", log |-> <<>> ]

\* no direct call
NoUnit == [ fn |-> "none", arg |-> <<>>, done |-> TRUE, out |-> <<>> ]

NoInput == [ type |-> "none", value |-> <<>> ]
Unsettled == [ state |-> "pending", value |-> <<>>, caught |-> FALSE ]
Idle ==
  [ pc |-> "idle", input |-> NoInput, waitsOn |-> 0, allAdditives |-> <<>>,
    foundAdditives |-> <<>>, outcome |-> Unsettled ]

Init ==
  /\ additivesCache = <<>>
  /\ cacheLoadPromise = 0
  /\ promises = <<>>
  /\ fetchCount = 0
  /\ callers = [ c \in Callers |-> Idle ]
  /\ unit = NoUnit
  /\ job = [ j \in Jobs |-> NoJob ]

\* the getter without the check of the in-flight promise
getCachedAdditives_NoJoin(getThrows) ==
  IF additivesCache # <<>>
  THEN [ cache |-> additivesCache, loadPromise |-> cacheLoadPromise, promises |-> promises,
         fetchCount |-> fetchCount, returns |-> 0, value |-> additivesCache ]
  ELSE IF getThrows
  THEN [ cache |-> << additiveData >>, loadPromise |-> Len(promises) + 1,
         promises |-> Append(promises, [ state |-> "fulfilled", value |-> << additiveData >>,
                                         fetch |-> "threw" ]),
         fetchCount |-> fetchCount, returns |-> Len(promises) + 1, value |-> <<>> ]
  ELSE [ cache |-> <<>>, loadPromise |-> Len(promises) + 1,
         promises |-> Append(promises, [ state |-> "pending", value |-> <<>>,
                                         fetch |-> "inflight" ]),
         fetchCount |-> fetchCount + 1, returns |-> Len(promises) + 1, value |-> <<>> ]

\* the getter without the check of the cache
getCachedAdditives_NoCacheCheck(getThrows) ==
  IF cacheLoadPromise # 0
  THEN [ cache |-> additivesCache, loadPromise |-> cacheLoadPromise, promises |-> promises,
         fetchCount |-> fetchCount, returns |-> cacheLoadPromise, value |-> <<>> ]
  ELSE IF getThrows
  THEN [ cache |-> << additiveData >>, loadPromise |-> Len(promises) + 1,
         promises |-> Append(promises, [ state |-> "fulfilled", value |-> << additiveData >>,
                                         fetch |-> "threw" ]),
         fetchCount |-> fetchCount, returns |-> Len(promises) + 1, value |-> <<>> ]
  ELSE [ cache |-> <<>>, loadPromise |-> Len(promises) + 1,
         promises |-> Append(promises, [ state |-> "pending", value |-> <<>>,
                                         fetch |-> "inflight" ]),
         fetchCount |-> fetchCount + 1, returns |-> Len(promises) + 1, value |-> <<>> ]

\* getCachedAdditives up to its return.  getThrows: getDb() or the get()
\* call raises before anything is awaited, so that the async arrow runs to
\* its end inside the call and the assignment of its promise to
\* cacheLoadPromise comes after its own cacheLoadPromise = null.
\* returns is the promise handed back (0: the cache itself, in value).
getCachedAdditives(getThrows) ==
  IF additivesCache # <<>>
  THEN [ cache |-> additivesCache, loadPromise |-> cacheLoadPromise, promises |-> promises,
         fetchCount |-> fetchCount, returns |-> 0, value |-> additivesCache ]
  ELSE IF cacheLoadPromise # 0
  THEN [ cache |-> additivesCache, loadPromise |-> cacheLoadPromise, promises |-> promises,
         fetchCount |-> fetchCount, returns |-> cacheLoadPromise, value |-> <<>> ]
  ELSE IF getThrows
  THEN [ cache |-> << additiveData >>, loadPromise |-> Len(promises) + 1,
         promises |-> Append(promises, [ state |-> "fulfilled", value |-> << additiveData >>,
                                         fetch |-> "threw" ]),
         fetchCount |-> fetchCount, returns |-> Len(promises) + 1, value |-> <<>> ]
  ELSE [ cache |-> <<>>, loadPromise |-> Len(promises) + 1,
         promises |-> Append(promises, [ state |-> "pending", value |-> <<>>,
                                         fetch |-> "inflight" ]),
         fetchCount |-> fetchCount + 1, returns |-> Len(promises) + 1, value |-> <<>> ]

\* searchAdditivesWithFuzzyMatching(input) up to its await
Call(c, input, getThrows) ==
  /\ callers[c].pc = "idle"
  /\ LET g == getCachedAdditives(getThrows)
     IN  /\ Len(g.promises) <= MaxPromises
         /\ additivesCache' = g.cache
         /\ cacheLoadPromise' = g.loadPromise
         /\ promises' = g.promises
         /\ fetchCount' = g.fetchCount
         /\ callers' = [ callers EXCEPT ![c] =
                           [ pc |-> "awaitCatalog", input |-> input, waitsOn |-> g.returns,
                             allAdditives |-> g.value, foundAdditives |-> <<>>,
                             outcome |-> Unsettled ] ]
  /\ UNCHANGED << unit, job >>

\* a catch block that throws the error on: the cache stays empty, the
\* promise stays in cacheLoadPromise and is rejected
LoadSettles_Rethrows(result) ==
  IF result.kind = "rejected"
  THEN [ cache |-> additivesCache, loadPromise |-> cacheLoadPromise,
         state |-> "rejected", value |-> <<>> ]
  ELSE LET loaded == IF result.docs # <<>> THEN result.docs ELSE additiveData
       IN  [ cache |-> << loaded >>, loadPromise |-> 0, state |-> "fulfilled",
             value |-> << loaded >> ]

\* the async arrow without its cacheLoadPromise = null
LoadSettles_KeepsPromise(result) ==
  LET loaded ==
        IF result.kind = "ok" /\ result.docs # <<>> THEN result.docs ELSE additiveData
  IN  [ cache |-> << loaded >>, loadPromise |-> cacheLoadPromise, state |-> "fulfilled",
        value |-> << loaded >> ]

\* a catch block that waits for a retry which never comes
LoadSettles_HangsOnFailure(result) ==
  IF result.kind = "rejected"
  THEN [ cache |-> additivesCache, loadPromise |-> cacheLoadPromise,
         state |-> "pending", value |-> <<>> ]
  ELSE LET loaded == IF result.docs # <<>> THEN result.docs ELSE additiveData
       IN  [ cache |-> << loaded >>, loadPromise |-> 0, state |-> "fulfilled",
             value |-> << loaded >> ]

\* the async arrow resolving with the snapshot whatever it put in the cache
LoadSettles_ResolvesSnapshot(result) ==
  LET loaded ==
        IF result.kind = "ok" /\ result.docs # <<>> THEN result.docs ELSE additiveData
  IN  [ cache |-> << loaded >>, loadPromise |-> 0, state |-> "fulfilled",
        value |-> << additiveData >> ]

\* the async arrow taking the snapshot whatever the store returned
LoadSettles_PrefersSnapshot(result) ==
  [ cache |-> << additiveData >>, loadPromise |-> 0, state |-> "fulfilled",
    value |-> << additiveData >> ]

\* the rest of the async arrow once get() has settled: what the cache
\* becomes and how the load promise settles
LoadSettles(result) ==
  LET loaded ==
        IF result.kind = "ok" /\ result.docs # <<>> THEN result.docs ELSE additiveData
  IN  [ cache |-> << loaded >>, loadPromise |-> 0, state |-> "fulfilled", value |-> << loaded >> ]

FetchSettles(p, result) ==
  /\ p \in 1..Len(promises)
  /\ promises[p].fetch = "inflight"
  /\ LET l == LoadSettles(result)
     IN  /\ additivesCache' = l.cache
         /\ cacheLoadPromise' = l.loadPromise
         /\ promises' = [ promises EXCEPT ![p] =
                            [ state |-> l.state, value |-> l.value,
                              fetch |-> IF result.kind = "ok" /\ result.docs = <<>>
                                        THEN "empty" ELSE result.kind ] ]
  /\ UNCHANGED << fetchCount, callers, unit, job >>

\* the value the awaited getter promise carries, <<>> while it is pending
Awaited(c) ==
  IF callers[c].waitsOn = 0
  THEN [ state |-> "fulfilled", value |-> callers[c].allAdditives ]
  ELSE [ state |-> promises[callers[c].waitsOn].state,
         value |-> promises[callers[c].waitsOn].value ]

\* a search that writes the match onto the entry it scored, as
\* Object.assign(additive, bestMatch) would
CatalogAfterSearch_AnnotatesEntries(allAdditives, foundAdditives) ==
  [ i \in 1..Len(allAdditives) |->
      IF \E j \in 1..Len(foundAdditives) : foundAdditives[j].id = allAdditives[i].id
      THEN foundAdditives[CHOOSE j \in 1..Len(foundAdditives) :
                            foundAdditives[j].id = allAdditives[i].id]
      ELSE allAdditives[i] ]

\* the array the search was handed, as the search leaves it: matches.push
\* takes a new object { ...additive, ...bestMatch }, removeDuplicatesAndSort
\* fills a Map and sorts the array made of its values, and slice returns a
\* new array; nothing is assigned to allAdditives or to an entry of it
CatalogAfterSearch(allAdditives, foundAdditives) == allAdditives

\* the search from its await to its return; the array it is handed is the
\* array in additivesCache
Resume(c) ==
  /\ callers[c].pc = "awaitCatalog"
  /\ Awaited(c).state # "pending"
  /\ LET body == IF Awaited(c).state = "rejected"
                 THEN [ threw |-> TRUE, value |-> <<>>, found |-> <<>> ]
                 ELSE Searches[callers[c].input, Awaited(c).value[1]]
     IN  /\ callers' = [ callers EXCEPT ![c].pc = "settled",
                                        ![c].allAdditives = Awaited(c).value,
                                        ![c].foundAdditives = body.found,
                                        ![c].outcome = SearchSettles(body) ]
         /\ additivesCache' =
              IF additivesCache # <<>> /\ additivesCache = Awaited(c).value
              THEN << CatalogAfterSearch(additivesCache[1], body.found) >>
              ELSE additivesCache
  /\ UNCHANGED << cacheLoadPromise, promises, fetchCount, unit, job >>

\* the caller takes the result; it may call again
Return(c) ==
  /\ callers[c].pc = "settled"
  /\ callers' = [ callers EXCEPT ![c] = Idle ]
  /\ UNCHANGED << additivesCache, cacheLoadPromise, promises, fetchCount, unit, job >>

Next ==
  \/ \E c \in Callers, input \in Inputs, getThrows \in BOOLEAN : Call(c, input, getThrows)
  \/ \E p \in 1..MaxPromises, result \in FetchResults : FetchSettles(p, result)
  \/ \E c \in Callers : Resume(c)
  \/ \E c \in Callers : Return(c)

Spec == Init /\ [][Next]_vars

\* the event loop runs a continuation whose promise has settled, and the
\* store is required to complete every fetch
FairSpec ==
  /\ Spec
  /\ \A c \in Callers : WF_vars(Resume(c))
  /\ WF_vars(\E p \in 1..MaxPromises, result \in FetchResults : FetchSettles(p, result))

(***************************************************************************)
(* Direct calls of the functions of the module                             *)
(***************************************************************************)
MaxTextLen == 3
MaxPieces == 3

\* characters of every class the three replaces of normalizeText tell apart
NormalizeAlphabet ==
  { "A", "b", "0", "_", "-", " ", "gu", "MIDDOT", "(", "DQUOTE", "!", "NBSP" }

\* the strings over an alphabet of at most n characters
StringsUpTo(alphabet, n) == UNION { [ 1..k -> alphabet ] : k \in 0..n }

NormalizeTexts == StringsUpTo(NormalizeAlphabet, MaxTextLen)

RECURSIVE Concat(_)
Concat(pieces) == IF pieces = <<>> THEN <<>> ELSE Head(pieces) \o Concat(Tail(pieces))

\* words, a stoplist word, a whitelisted word in brackets, and delimiters
Pieces ==
  { <<"gu", "xyeon", "san">>, <<"hwang", "saeg", "5", "ho">>, <<"bun", "mal">>, <<"S", "a", "l", "t">>,
    <<"o", "r">>, <<",", " ">>, <<" ">>, <<"(", "san", "do", "jo", "jeol", "je", ")">> }

\* the texts the extractor is called with: up to MaxPieces pieces in a row,
\* and labels with more keywords than the extractor returns
PieceTexts == { Concat(pieces) : pieces \in StringsUpTo(Pieces, MaxPieces) }

LabelLong == <<"jeog", "saeg", "4", "0", "ho", " ", "hwang", "saeg", "5", "ho", " ", "cheong", "saeg", "1", "ho", " ", "jeog", "saeg", "3", "ho", " ", "hwang", "saeg", "6", "ho", " ", "gu", "xyeon", "san", " ", "so", "geum", " ", "seol", "tang">>  \* \uc801\uc0c940\ud638 \ud669\uc0c95\ud638 \uccad\uc0c91\ud638 \uc801\uc0c93\ud638 \ud669\uc0c96\ud638 \uad6c\uc5f0\uc0b0 \uc18c\uae08 \uc124\ud0d5
LabelSeven == <<"xan", "sig", "hyang", "san", "na", "teu", "ryum", " ", "su", "keu", "ral", "ro", "seu", " ", "ka", "ra", "gi", "nan", " ", "xa", "seu", "pa", "tam", " ", "re", "si", "tin", " ", "seol", "tang", " ", "gu", "xyeon">>  \* \uc548\uc2dd\ud5a5\uc0b0\ub098\ud2b8\ub968 \uc218\ud06c\ub784\ub85c\uc2a4 \uce74\ub77c\uae30\ub09c \uc544\uc2a4\ud30c\ud0d0 \ub808\uc2dc\ud2f4 \uc124\ud0d5 \uad6c\uc5f0
LabelSevenOther == <<"xan", "sig", "hyang", "san", "na", "teu", "ryum", " ", "su", "keu", "ral", "ro", "seu", " ", "ka", "ra", "gi", "nan", " ", "xa", "seu", "pa", "tam", " ", "re", "si", "tin", " ", "seol", "tang", " ", "so", "geum">>  \* \uc548\uc2dd\ud5a5\uc0b0\ub098\ud2b8\ub968 \uc218\ud06c\ub784\ub85c\uc2a4 \uce74\ub77c\uae30\ub09c \uc544\uc2a4\ud30c\ud0d0 \ub808\uc2dc\ud2f4 \uc124\ud0d5 \uc18c\uae08
LabelCitrates == <<"gu", "xyeon", "san", "na", "teu", "ryum", ",", " ", "gu", "xyeon", "san", ",", " ", "gu", "xyeon">>  \* \uad6c\uc5f0\uc0b0\ub098\ud2b8\ub968, \uad6c\uc5f0\uc0b0, \uad6c\uc5f0
LabelGarbled == <<"xan", "sig", "hyang", "san", "nya", "teu", "ryum", ",", " ", "geul", "ru", "tam", "san", "na", "teu", "ryum", ",", " ", "gu", "xyeon", "xag", ",", " ", "xa", "seu", "pa", "teum">>  \* \uc548\uc2dd\ud5a5\uc0b0\ub0d0\ud2b8\ub968, \uae00\ub8e8\ud0d0\uc0b0\ub098\ud2b8\ub968, \uad6c\uc5f0\uc545, \uc544\uc2a4\ud30c\ud2c8

\* two words a space apart that name one additive, and a stoplist word
\* in front of a number
LabelCompound == <<"gu", "xa", " ", "geom">>  \* \uad6c\uc544 \uac80
LabelCompounds == <<"gu", "xa", " ", "geom", ",", " ", "jan", "tan", " ", "geom">>  \* \uad6c\uc544 \uac80, \uc794\ud0c4 \uac80
LabelStoplisted == <<"ham", "ryang", "5">>  \* \ud568\ub7c95

ExtractTexts ==
  PieceTexts
    \cup { LabelLong, LabelSeven, LabelSevenOther, LabelCitrates, LabelGarbled,
           LabelCompound, LabelCompounds, LabelStoplisted }

\* keywords as the extractor returns them and lower-cased names and aliases
UnitKeywords ==
  { <<"gu", "xyeon", "san">>, <<"gu", "xyeon">>, <<"gu", "xyeon", "xag">>, <<"jeog", "saeg", "4", "0">>,
    <<"jeog", "saeg", "4", "0", "ho">>, <<"s", "a", "l", "t">>, <<"s", "a", "l", "_", "t">>, <<"s", "a">>,
    <<"s", "_", "a">>, <<"xan", "sig", "hyang", "san", "nya", "teu", "ryum">>, <<"b", "h", "a">>, <<"gu", "xyeon", "san", "na", "teu", "ryum">>,
    <<"xa", "ni">>, <<"xan", "sig", "hyang", "san", "na", "teu", "ryum">>, <<"san", "xyeon", "gu">> }
UnitTerms ==
  { <<"gu", "xyeon", "san">>, <<"gu", "xyeon", "san", "na", "teu", "ryum">>, <<"jeog", "saeg", " ", "4", "0", "ho">>, <<"jeog", "saeg", "4", "0", "ho">>,
    <<"jeog", "saeg", " ", "3", "ho">>, <<"s", "a", "l", "t">>, <<"s", "a">>, <<"xan", "sig", "hyang", "san", "na", "teu", "ryum">>,
    <<"b", "h", "a">>, <<"b", "h", "t">> }

\* the well-formed entries of the catalogs
UnitEntries ==
  UNION { { cat[i] : i \in { j \in 1..Len(cat) : ~EntryThrows(cat[j]) } } : cat \in Catalogs }

\* tokens with and without the shape Hangul, digits, Hangul
UnitTokens ==
  { <<"hwang", "saeg", "5", "ho">>, <<"jeog", "saeg", "4", "0">>, <<"saeg", "5", "ho">>, <<"gu", "xyeon", "san">>,
    <<"5", "ho">>, <<"ham", "ryang", "5">>, <<"e", "hwang", "saeg", "5", "ho">>, <<"hwang", "saeg", "5", "ho", "e">>,
    <<"cheong", "saeg", "1", "ho", "jeog", "saeg", "3", "ho">> }

\* words inside and around the whitelist and the stoplist
UnitWords ==
  { <<"gu", "xa", "geom">>, <<"gu", "xa">>, <<"geom">>, <<"byeon", "seong", "jeon", "bun">>,
    <<"jeon", "bun", "bun", "mal">>, <<"san">>, <<"bun", "mal">>, <<"ham", "ryang">>,
    <<"o", "r">>, <<"O", "r">>, <<"gu", "xyeon", "san">>, <<>>,
    <<"s", "a", "l", "t">> }

\* a document without aliases among well-formed ones
CatalogNoAliases ==
  << CatalogCitric[1],
     [ id |-> "bare", name |-> <<"gu", "xyeon", "san">>, hazard_level |-> "low" ] >>

\* the catalogs of the direct calls
UnitCatalogs == Catalogs \cup { CatalogNoAliases }

\* the texts of the direct searches
SearchTexts ==
  { Text1, Text2, Text3, Text5, Text6,
    LabelLong, LabelSeven, LabelSevenOther, LabelCitrates, LabelGarbled }

\* the direct searches, each evaluated once
UnitSearches ==
  [ text \in SearchTexts, allAdditives \in UnitCatalogs |->
      SearchBody(Str(text), allAdditives) ]

Pending(fn, arg) == [ fn |-> fn, arg |-> arg, done |-> FALSE, out |-> <<>> ]

UnitCalls ==
  { Pending("normalizeText", << text >>) : text \in NormalizeTexts }
    \cup { Pending("normalizeAndExtractKeywords", << text >>) : text \in ExtractTexts }
    \cup { Pending("scoreTerm", << keyword, searchTerm >>) :
             keyword \in UnitKeywords, searchTerm \in UnitTerms }
    \cup { Pending("scoreAdditive", << keyword, additive >>) :
             keyword \in UnitKeywords, additive \in UnitEntries }
    \cup { Pending("search", << text, other, allAdditives >>) :
             text \in SearchTexts, other \in SearchTexts, allAdditives \in UnitCatalogs }
    \cup { Pending("numberedParts", << keyword >>) : keyword \in UnitTokens }
    \cup { Pending("isCommonWord", << word >>) : word \in UnitWords }
    \cup { Pending("findAdditiveMatches", << keyword, additives >>) :
             keyword \in UnitKeywords, additives \in UnitCatalogs }

UnitInit ==
  /\ additivesCache = <<>>
  /\ cacheLoadPromise = 0
  /\ promises = <<>>
  /\ fetchCount = 0
  /\ callers = [ c \in Callers |-> Idle ]
  /\ unit \in UnitCalls
  /\ job = [ j \in Jobs |-> NoJob ]

Returned(out) ==
  /\ unit' = [ unit EXCEPT !.done = TRUE, !.out = out ]
  /\ UNCHANGED << additivesCache, cacheLoadPromise, promises, fetchCount, callers, job >>

\* normalizeText(text), and normalizeText of what it returned
OnceAndTwice(once) == << once, normalizeText(once) >>

ApplyNormalizeText ==
  /\ unit.fn = "normalizeText" /\ ~unit.done
  /\ Returned(OnceAndTwice(normalizeText(unit.arg[1])))

ApplyExtract ==
  /\ unit.fn = "normalizeAndExtractKeywords" /\ ~unit.done
  /\ Returned(normalizeAndExtractKeywords(unit.arg[1]))

\* one pass of the loop over the search terms, from bestMatch = null
ApplyScoreTerm ==
  /\ unit.fn = "scoreTerm" /\ ~unit.done
  /\ Returned(ScoreTerm(unit.arg[1], unit.arg[2], NoBest))

\* the loop over the search terms of one entry and the emit test
ApplyScoreAdditive ==
  /\ unit.fn = "scoreAdditive" /\ ~unit.done
  /\ Returned(ScoreAdditive(unit.arg[1], unit.arg[2]))

\* the try block of the search on two texts against one catalog
ApplySearch ==
  /\ unit.fn = "search" /\ ~unit.done
  /\ Returned(<< UnitSearches[unit.arg[1], unit.arg[3]], UnitSearches[unit.arg[2], unit.arg[3]] >>)

\* the pushes into numberedAdditives for one keyword of the forEach
ApplyNumberedParts ==
  /\ unit.fn = "numberedParts" /\ ~unit.done
  /\ Returned(numberedParts(unit.arg[1]))

ApplyIsCommonWord ==
  /\ unit.fn = "isCommonWord" /\ ~unit.done
  /\ Returned(isCommonWord(unit.arg[1]))

\* the loop over the additives for one keyword
ApplyFindAdditiveMatches ==
  /\ unit.fn = "findAdditiveMatches" /\ ~unit.done
  /\ Returned(findAdditiveMatches(unit.arg[1], unit.arg[2]))

UnitNext ==
  \/ ApplyNormalizeText
  \/ ApplyExtract
  \/ ApplyScoreTerm
  \/ ApplyScoreAdditive
  \/ ApplySearch
  \/ ApplyNumberedParts
  \/ ApplyIsCommonWord
  \/ ApplyFindAdditiveMatches

UnitSpec == UnitInit /\ [][UnitNext]_vars

(***************************************************************************)
(* Image-search jobs: searchByImage and processImageWithFirestore          *)
(***************************************************************************)
\* Every request draws its own jobId, so that a job is a request.  status
\* is the status field of the document scanResults/jobId ("none": no
\* document), response what res sent, threw the step of the background
\* processing that raised, and log the calls and effects in the order the
\* code makes them.  A write either is applied and resolves, or raises and
\* is not applied.  The search inside the background processing is the one
\* of Call and Resume; it reads and writes no job document and, with its
\* body in a try block, never raises.

Logged(jb, events) == [ jb EXCEPT !.log = jb.log \o events ]

\* searchByImage up to its await of scanResultRef.set: without image data,
\* or when the download or the decoding fails, it answers 400 and returns;
\* when getDb() raises, the catch block answers 500
AfterRequest(jb, imageOk, getDbThrows) ==
  IF ~imageOk
  THEN Logged([ jb EXCEPT !.pc = "done", !.response = "400" ], << "respond 400" >>)
  ELSE IF getDbThrows
  THEN Logged([ jb EXCEPT !.pc = "done", !.response = "500" ], << "respond 500" >>)
  ELSE Logged([ jb EXCEPT !.pc = "awaitSet" ], << "call set processing" >>)

\* searchByImage from the settling of the set to its end: the response with
\* the jobId, then processImageWithFirestore up to its first await.  The
\* getDb() of processImageWithFirestore stands before its try block: when
\* it raises, the promise is rejected, the rejection logged, and the
\* document stays as it is.
AfterSet(jb, ok, getDbThrows) ==
  IF ~ok
  THEN Logged([ jb EXCEPT !.pc = "done", !.response = "500" ], << "respond 500" >>)
  ELSE IF getDbThrows
  THEN Logged([ jb EXCEPT !.pc = "done", !.status = "processing", !.response = "jobId" ],
              << "set processing", "respond jobId", "start background" >>)
  ELSE Logged([ jb EXCEPT !.pc = "awaitOcr", !.status = "processing", !.response = "jobId" ],
              << "set processing", "respond jobId", "start background", "call ocr" >>)

\* Step 1 settles: the search is called, or the catch block calls the
\* update to failed
AfterOcr(jb, ok) ==
  IF ok
  THEN Logged([ jb EXCEPT !.pc = "awaitSearch" ], << "call search" >>)
  ELSE Logged([ jb EXCEPT !.pc = "awaitFailedWrite", !.threw = "ocr" ],
              << "call update failed" >>)

\* Step 2 settles, Step 3 calls the update to completed
AfterSearch(jb) ==
  Logged([ jb EXCEPT !.pc = "awaitCompletedWrite" ], << "call update completed" >>)

\* a report of failure sent after every job, the completed ones too
AfterCompletedWrite_ReportsFailureToo(jb, ok) ==
  IF ok
  THEN Logged([ jb EXCEPT !.pc = "awaitFailedWrite", !.status = "completed" ],
              << "update completed", "call update failed" >>)
  ELSE Logged([ jb EXCEPT !.pc = "awaitFailedWrite", !.threw = "write" ],
              << "call update failed" >>)

\* the update to completed settles: the job is done, or the catch block
\* calls the update to failed
AfterCompletedWrite(jb, ok) ==
  IF ok
  THEN Logged([ jb EXCEPT !.pc = "done", !.status = "completed" ], << "update completed" >>)
  ELSE Logged([ jb EXCEPT !.pc = "awaitFailedWrite", !.threw = "write" ],
              << "call update failed" >>)

\* the update to failed settles; when it raises, the inner catch block
\* logs the error
AfterFailedWrite(jb, ok) ==
  IF ok
  THEN Logged([ jb EXCEPT !.pc = "done", !.status = "failed" ], << "update failed" >>)
  ELSE [ jb EXCEPT !.pc = "done" ]

JobStep(j, jb) ==
  /\ job' = [ job EXCEPT ![j] = jb ]
  /\ UNCHANGED << additivesCache, cacheLoadPromise, promises, fetchCount, callers, unit >>

JobRequest(j, imageOk, getDbThrows) ==
  /\ job[j].pc = "idle"
  /\ JobStep(j, AfterRequest(job[j], imageOk, getDbThrows))

JobSetSettles(j, ok, getDbThrows) ==
  /\ job[j].pc = "awaitSet"
  /\ JobStep(j, AfterSet(job[j], ok, getDbThrows))

JobOcrSettles(j, ok) ==
  /\ job[j].pc = "awaitOcr"
  /\ JobStep(j, AfterOcr(job[j], ok))

JobSearchSettles(j) ==
  /\ job[j].pc = "awaitSearch"
  /\ JobStep(j, AfterSearch(job[j]))

JobCompletedWriteSettles(j, ok) ==
  /\ job[j].pc = "awaitCompletedWrite"
  /\ JobStep(j, AfterCompletedWrite(job[j], ok))

JobFailedWriteSettles(j, ok) ==
  /\ job[j].pc = "awaitFailedWrite"
  /\ JobStep(j, AfterFailedWrite(job[j], ok))

JobNext ==
  \/ \E j \in Jobs, imageOk \in BOOLEAN, getDbThrows \in BOOLEAN :
       JobRequest(j, imageOk, getDbThrows)
  \/ \E j \in Jobs, ok \in BOOLEAN, getDbThrows \in BOOLEAN : JobSetSettles(j, ok, getDbThrows)
  \/ \E j \in Jobs, ok \in BOOLEAN : JobOcrSettles(j, ok)
  \/ \E j \in Jobs : JobSearchSettles(j)
  \/ \E j \in Jobs, ok \in BOOLEAN : JobCompletedWriteSettles(j, ok)
  \/ \E j \in Jobs, ok \in BOOLEAN : JobFailedWriteSettles(j, ok)

JobSpec == Init /\ [][JobNext]_vars

(***************************************************************************)
(* Properties                                                              *)
(***************************************************************************)
Settled(c) == callers[c].pc = "settled"
Waiting(c) == callers[c].pc = "awaitCatalog"

\* the lower-cased name and aliases of a well-formed entry
SearchTermsOf(additive) ==
  { toLowerCase(additive.name) }
    \cup { toLowerCase(additive.aliases[i]) : i \in 1..Len(additive.aliases) }

HasExact(matches, id) ==
  \E j \in 1..Len(matches) :
    /\ matches[j].id = id
    /\ matches[j].matchType = "exact"
    /\ matches[j].matchScore = <<1, 1>>

\* every keyword that equals a search term of an entry is emitted for it as
\* an exact match of score 1
ExactHitsEmitted(keywords, allAdditives) ==
  \A k \in 1..Len(keywords), i \in 1..Len(allAdditives) :
    toLowerCase(keywords[k]) \in SearchTermsOf(allAdditives[i]) =>
      HasExact(findAdditiveMatches(keywords[k], allAdditives).value, allAdditives[i].id)

\* C1: exact match priority.  Whenever a search has settled without an
\* exception, every keyword it scores that equals, case-insensitively, the
\* name or an alias of a catalog entry makes findAdditiveMatches emit that
\* entry with matchType exact and matchScore 1; and the search of the
\* three syllables of Text1 in the catalog that holds only citric-acid
\* returns citric-acid as an exact match of score 1.
C1_ExactMatchPriority ==
  \A c \in Callers :
    (Settled(c) /\ ~callers[c].outcome.caught) =>
      /\ ExactHitsEmitted(ScoredKeywords(callers[c].input.value), callers[c].allAdditives[1])
      /\ (callers[c].allAdditives = << CatalogCitric >> /\ callers[c].input = Str(Text1)) =>
           HasExact(callers[c].outcome.value, "citric-acid")

\* C2: no duplicate fetches.  At most one get() ever reaches the store, and
\* every caller that waits on a pending load waits on the one in-flight
\* promise held in cacheLoadPromise.
C2_NoDuplicateFetches ==
  /\ fetchCount <= 1
  /\ Cardinality({ p \in 1..Len(promises) : promises[p].fetch # "threw" }) <= 1
  /\ \A c \in Callers :
       (Waiting(c) /\ callers[c].waitsOn # 0 /\ promises[callers[c].waitsOn].state = "pending") =>
         callers[c].waitsOn = cacheLoadPromise

\* two callers wait on the same in-flight load
C2_Witness ==
  \E c1, c2 \in Callers :
    /\ c1 # c2
    /\ Waiting(c1) /\ Waiting(c2)
    /\ cacheLoadPromise # 0
    /\ callers[c1].waitsOn = cacheLoadPromise
    /\ callers[c2].waitsOn = cacheLoadPromise
    /\ promises[cacheLoadPromise].state = "pending"
    /\ fetchCount = 1

\* C3: no-throw guarantee.  The promise of a search is never rejected: a
\* settled search is fulfilled with an array, the array is empty whenever
\* the catch block ran, and an argument that is not a string ends in the
\* catch block.
C3_NoThrow ==
  \A c \in Callers :
    /\ callers[c].outcome.state # "rejected"
    /\ Settled(c) => callers[c].outcome.state = "fulfilled"
    /\ callers[c].outcome.caught => callers[c].outcome.value = <<>>
    /\ (Settled(c) /\ callers[c].input.type # "string") => callers[c].outcome.caught

\* one search was called with null, another met a malformed catalog
\* entry while scoring; both have settled through the catch block
C3_Witness ==
  \E c1, c2 \in Callers :
    /\ Settled(c1) /\ callers[c1].input.type = "null" /\ callers[c1].outcome.caught
    /\ Settled(c2) /\ callers[c2].input.type = "string" /\ callers[c2].outcome.caught
    /\ callers[c2].allAdditives = << CatalogMalformed >>

FetchFailed(p) == promises[p].fetch \in { "rejected", "threw" }

\* C4: catalog-unavailable fallback.  When the live fetch threw or was
\* rejected, the cache and the load promise hold the bundled snapshot,
\* every settled search was given the snapshot and is fulfilled, not
\* rejected, with what the search of the snapshot yields.
C4_FallbackToSnapshot ==
  \A p \in 1..Len(promises) :
    FetchFailed(p) =>
      /\ additivesCache = << additiveData >>
      /\ promises[p].state = "fulfilled"
      /\ promises[p].value = << additiveData >>
      /\ \A c \in Callers :
           Settled(c) =>
             /\ callers[c].allAdditives = << additiveData >>
             /\ callers[c].outcome.state = "fulfilled"
             /\ callers[c].input.type = "string" =>
                  /\ ~callers[c].outcome.caught
                  /\ callers[c].outcome.value = Searches[callers[c].input, additiveData].value

\* the fetch was rejected while two callers waited on the load; both have
\* settled, one of them with a match
C4_Witness ==
  \E p \in 1..Len(promises), c1, c2 \in Callers :
    /\ promises[p].fetch = "rejected"
    /\ c1 # c2
    /\ Settled(c1) /\ callers[c1].waitsOn = p
    /\ Settled(c2) /\ callers[c2].waitsOn = p
    /\ callers[c1].outcome.value # <<>>

\* C5 as stated: after a load whose live fetch failed the in-flight promise
\* is cleared and a call of the catalog getter starts a new fetch against
\* the live store.
C5_RetryAfterFailedLoad ==
  \A p \in 1..Len(promises) :
    promises[p].fetch = "rejected" =>
      /\ cacheLoadPromise = 0
      /\ getCachedAdditives(FALSE).fetchCount = fetchCount + 1

\* C5 as amended: after a load whose live fetch was rejected the in-flight
\* promise is cleared (after a synchronous throw cacheLoadPromise keeps the
\* settled promise of that load); either way the cache holds the snapshot
\* and a call of the catalog getter returns it without starting a fetch.
C5_NoRetryAfterFailedLoad ==
  \A p \in 1..Len(promises) :
    FetchFailed(p) =>
      /\ promises[p].fetch = "rejected" => cacheLoadPromise = 0
      /\ promises[p].fetch = "threw" => cacheLoadPromise = p
      /\ additivesCache = << additiveData >>
      /\ \A getThrows \in BOOLEAN :
           /\ getCachedAdditives(getThrows).fetchCount = fetchCount
           /\ getCachedAdditives(getThrows).promises = promises
           /\ getCachedAdditives(getThrows).returns = 0
           /\ getCachedAdditives(getThrows).value = << additiveData >>

\* the fetch was rejected, and a caller that arrived afterwards was handed
\* the cached snapshot
C5_Witness ==
  \E p \in 1..Len(promises), c \in Callers :
    /\ promises[p].fetch = "rejected"
    /\ callers[c].pc # "idle"
    /\ callers[c].waitsOn = 0
    /\ callers[c].allAdditives = << additiveData >>

\* Empty = 0, Loading = 1, Loaded = 2
Phase ==
  IF additivesCache # <<>> THEN 2 ELSE IF cacheLoadPromise # 0 THEN 1 ELSE 0

\* C6: the cache lifecycle is monotone.  No step moves the cache back from
\* Loaded to Loading or Empty or from Loading to Empty; once the cache is
\* loaded no step changes it, starts a fetch or creates a load promise, and
\* a call made then is handed the cached catalog itself.
C6_CacheMonotone ==
  [][ /\ Phase' >= Phase
      /\ additivesCache # <<>> =>
           /\ additivesCache' = additivesCache
           /\ fetchCount' = fetchCount
           /\ promises' = promises
           /\ \A c \in Callers :
                (callers[c].pc = "idle" /\ callers'[c].pc = "awaitCatalog") =>
                  /\ callers'[c].waitsOn = 0
                  /\ callers'[c].allAdditives = additivesCache ]_vars

\* a live catalog is cached, one caller has settled on it and another,
\* called after the load, holds the same catalog
C6_Witness ==
  \E c1, c2 \in Callers :
    /\ additivesCache = << CatalogMany >>
    /\ cacheLoadPromise = 0
    /\ Settled(c1) /\ callers[c1].waitsOn # 0
    /\ Waiting(c2) /\ callers[c2].waitsOn = 0
    /\ callers[c2].allAdditives = additivesCache

\* C7: eventual resolution.  With a store that completes every fetch, every
\* search that waits for the catalog settles.
C7_EventualResolution ==
  \A c \in Callers : Waiting(c) ~> Settled(c)

\* two callers that waited on the same load have both settled
C7_Witness ==
  \E c1, c2 \in Callers :
    /\ c1 # c2
    /\ Settled(c1) /\ Settled(c2)
    /\ callers[c1].waitsOn # 0
    /\ callers[c1].waitsOn = callers[c2].waitsOn
    /\ callers[c1].outcome.state = "fulfilled"
    /\ callers[c2].outcome.state = "fulfilled"

IdsOf(matches) == { matches[i].id : i \in 1..Len(matches) }

\* C8: bounded output.  The array a search resolves to holds at most 8
\* results.
C8_BoundedOutput ==
  \A c \in Callers : Len(callers[c].outcome.value) <= 8

\* a search that collected matches of more than 8 entries returned 8
C8_Witness ==
  \E c \in Callers :
    /\ Settled(c)
    /\ Cardinality(IdsOf(callers[c].foundAdditives)) > 8
    /\ Len(callers[c].outcome.value) = 8

\* the severity rank of the tie-break: high 0, medium 1, low 2, anything
\* else or no hazard level 3
SeverityRank(a) ==
  IF "hazard_level" \in DOMAIN a /\ a.hazard_level \in { "high", "medium", "low" }
  THEN CASE a.hazard_level = "high" -> 0
         [] a.hazard_level = "medium" -> 1
         [] a.hazard_level = "low" -> 2
  ELSE 3

\* C9: monotonic score ordering with hazard tie-break.  In every returned
\* list the scores do not increase, and of two adjacent results of equal
\* score the earlier has the lower or the same severity rank.
C9_ScoreOrdering ==
  \A c \in Callers :
    LET results == callers[c].outcome.value
    IN  \A i \in 1..(Len(results) - 1) :
          /\ RLeq(results[i + 1].matchScore, results[i].matchScore)
          /\ results[i].matchScore = results[i + 1].matchScore =>
               SeverityRank(results[i]) <= SeverityRank(results[i + 1])

\* a returned list in which the tie-break put a result of equal score in
\* front of one that was collected before it, a list that also ends in a
\* result without known hazard level
C9_Witness ==
  \E c \in Callers :
    LET results == callers[c].outcome.value
        found   == callers[c].foundAdditives
    IN  /\ Settled(c)
        /\ \E i \in 1..(Len(results) - 1) :
             /\ results[i].matchScore = results[i + 1].matchScore
             /\ SeverityRank(results[i]) < SeverityRank(results[i + 1])
             /\ \E f, g \in 1..Len(found) :
                  f < g /\ found[g] = results[i] /\ found[f] = results[i + 1]
        /\ \E i \in 1..Len(results) : SeverityRank(results[i]) = 3
        /\ \E i \in 1..(Len(results) - 1) :
             RLess(results[i + 1].matchScore, results[i].matchScore)

\* C10: duplicate suppression.  No two results of a search share an id, and
\* the result kept for an id is one of the collected matches of that id and
\* carries the highest score among them.
C10_DuplicateSuppression ==
  \A c \in Callers :
    LET results == callers[c].outcome.value
        found   == callers[c].foundAdditives
    IN  /\ \A i, j \in 1..Len(results) : i # j => results[i].id # results[j].id
        /\ \A i \in 1..Len(results) :
             /\ \E f \in 1..Len(found) : found[f] = results[i]
             /\ \A f \in 1..Len(found) :
                  found[f].id = results[i].id =>
                    RLeq(found[f].matchScore, results[i].matchScore)

\* two keywords hit the same entry with different scores, and it is returned
C10_Witness ==
  \E c \in Callers :
    LET results == callers[c].outcome.value
        found   == callers[c].foundAdditives
    IN  /\ Settled(c)
        /\ \E i \in 1..Len(results), f \in 1..Len(found) :
             /\ found[f].id = results[i].id
             /\ found[f].matchedTerm # results[i].matchedTerm
             /\ RLess(found[f].matchScore, results[i].matchScore)

(***************************************************************************)
(* Properties of the search as a function of text and catalog              *)
(***************************************************************************)
\* C11: determinism.  Two searches that have settled on the same argument
\* hold the same outcome, element for element and in the same order,
\* whether the catalog came to them through the load promise or from the
\* cache and whatever other searches ran meanwhile.
C11_Determinism ==
  \A c1, c2 \in Callers :
    (Settled(c1) /\ Settled(c2) /\ callers[c1].input = callers[c2].input) =>
      /\ callers[c1].outcome = callers[c2].outcome
      /\ callers[c1].allAdditives = callers[c2].allAdditives

\* the same text searched by the call that awaited the load and by a call
\* served from the cache, with a result of several entries
C11_Witness ==
  \E c1, c2 \in Callers :
    /\ Settled(c1) /\ Settled(c2)
    /\ callers[c1].input = callers[c2].input
    /\ callers[c1].input.type = "string"
    /\ callers[c1].waitsOn # 0 /\ promises[callers[c1].waitsOn].fetch = "ok"
    /\ callers[c2].waitsOn = 0
    /\ Len(callers[c1].outcome.value) >= 2

Applied(fn) == unit.fn = fn /\ unit.done

\* C12: normalization idempotence.  Normalising what normalizeText
\* returned gives it back unchanged.
C12_NormalizeIdempotent ==
  Applied("normalizeText") => unit.out[2] = unit.out[1]

\* a text of three characters of which normalizeText drops some and
\* keeps some
C12_Witness ==
  /\ Applied("normalizeText")
  /\ Len(unit.arg[1]) >= 3
  /\ unit.out[1] # <<>>
  /\ Len(unit.out[1]) < Len(unit.arg[1])
  /\ unit.out[2] = unit.out[1]

\* C13: extractor contract.  normalizeAndExtractKeywords returns at most
\* 15 keywords, no keyword twice, in order of non-increasing length.
C13_ExtractorContract ==
  Applied("normalizeAndExtractKeywords") =>
    /\ Len(unit.out) <= MaxExtractedKeywords
    /\ \A i, j \in 1..Len(unit.out) : i < j => unit.out[i] # unit.out[j]
    /\ \A i, j \in 1..Len(unit.out) : i < j => Len(unit.out[i]) >= Len(unit.out[j])

\* a label with more keywords than the cap: exactly 15 come back, of
\* different lengths
C13_Witness ==
  /\ Applied("normalizeAndExtractKeywords")
  /\ Len(unit.out) = MaxExtractedKeywords
  /\ Len(unit.out[1]) > Len(unit.out[MaxExtractedKeywords])
  /\ \E i \in 1..Len(unit.arg[1]) : unit.arg[1][i] \in Digits

(***************************************************************************)
(* Properties of the match scorer                                          *)
(***************************************************************************)
Normalized(s) == normalizeText(correctOCRErrors(s))

\* the conditions under which the four strategies qualify for a keyword
\* and a lower-cased search term
QualifiesExact(keyword, searchTerm) == searchTerm = toLowerCase(keyword)

QualifiesNormalizedExact(keyword, searchTerm) ==
  Normalized(searchTerm) = Normalized(keyword) /\ Len(Normalized(keyword)) > 2

ContainsRaw(keyword, searchTerm) ==
  includes(searchTerm, toLowerCase(keyword)) \/ includes(toLowerCase(keyword), searchTerm)

ContainsNormalized(keyword, searchTerm) ==
  \/ includes(Normalized(searchTerm), Normalized(keyword))
  \/ includes(Normalized(keyword), Normalized(searchTerm))

QualifiesPartial(keyword, searchTerm) ==
  ContainsRaw(keyword, searchTerm) \/ ContainsNormalized(keyword, searchTerm)

FuzzyThreshold(keyword) == IF Len(keyword) > 4 THEN <<3, 10>> ELSE <<1, 2>>

QualifiesFuzzy(keyword, searchTerm) ==
  RLeq(FuzzyThreshold(keyword), calculateStringSimilarity(keyword, searchTerm))

FuzzyScore(keyword, searchTerm) ==
  RMul(calculateStringSimilarity(keyword, searchTerm), <<7, 10>>)

\* min(0.9, (shorter / longer) * 0.85)
RatioScore(shorter, longer) == RMin(<<9, 10>>, RMul(Frac(shorter, longer), <<17, 20>>))

FourLengths(keyword, searchTerm) ==
  { Len(searchTerm), Len(keyword), Len(Normalized(searchTerm)), Len(Normalized(keyword)) }

\* the first strategy, in the order exact, normalized exact, partial,
\* fuzzy, that qualifies for the pair
FirstStrategy(keyword, searchTerm) ==
  IF QualifiesExact(keyword, searchTerm) THEN "exact"
  ELSE IF QualifiesNormalizedExact(keyword, searchTerm) THEN "normalized_exact"
  ELSE IF QualifiesPartial(keyword, searchTerm) THEN "partial"
  ELSE IF QualifiesFuzzy(keyword, searchTerm) THEN "fuzzy"
  ELSE "none"

\* the score of the candidate that strategy makes of the pair
CandidateScore(keyword, searchTerm) ==
  IF FirstStrategy(keyword, searchTerm) = "exact" THEN <<1, 1>>
  ELSE IF FirstStrategy(keyword, searchTerm) = "normalized_exact" THEN <<19, 20>>
  ELSE IF FirstStrategy(keyword, searchTerm) = "partial"
  THEN RatioScore(Min(FourLengths(keyword, searchTerm)), Max(FourLengths(keyword, searchTerm)))
  ELSE IF FirstStrategy(keyword, searchTerm) = "fuzzy" THEN FuzzyScore(keyword, searchTerm)
  ELSE <<0, 1>>

\* no candidate of the entry scores higher than score
IsMaxCandidate(score, keyword, additive) ==
  /\ \E i \in 1..Len(AllSearchTerms(additive)) :
       CandidateScore(keyword, AllSearchTerms(additive)[i]) = score
  /\ \A i \in 1..Len(AllSearchTerms(additive)) :
       RLeq(CandidateScore(keyword, AllSearchTerms(additive)[i]), score)

\* C14: per-entry strategy order.  A pair scored from an empty best match
\* gets the candidate of the first strategy that qualifies, in the order
\* exact, normalized exact, partial, fuzzy, and no candidate when none
\* qualifies; the match emitted for an entry carries the highest candidate
\* score over the name and the aliases of the entry.
C14_StrategyOrder ==
  /\ Applied("scoreTerm") =>
       /\ unit.out.found = (FirstStrategy(unit.arg[1], unit.arg[2]) # "none")
       /\ unit.out.bestMatch.matchType = FirstStrategy(unit.arg[1], unit.arg[2])
       /\ unit.out.bestMatch.matchScore = CandidateScore(unit.arg[1], unit.arg[2])
  /\ (Applied("scoreAdditive") /\ unit.out # <<>>) =>
       IsMaxCandidate(unit.out[1].matchScore, unit.arg[1], unit.arg[2])

\* an entry of three search terms is emitted with the partial candidate
\* of a term that is neither its first nor its last, on a pair whose fuzzy
\* score would have been higher
C14_Witness ==
  /\ Applied("scoreAdditive")
  /\ unit.out # <<>>
  /\ unit.out[1].matchType = "partial"
  /\ Len(AllSearchTerms(unit.arg[2])) >= 3
  /\ \E i \in 2..(Len(AllSearchTerms(unit.arg[2])) - 1) :
       /\ FirstStrategy(unit.arg[1], AllSearchTerms(unit.arg[2])[i]) = "partial"
       /\ CandidateScore(unit.arg[1], AllSearchTerms(unit.arg[2])[i]) = unit.out[1].matchScore
       /\ QualifiesFuzzy(unit.arg[1], AllSearchTerms(unit.arg[2])[i])
       /\ RLess(unit.out[1].matchScore, FuzzyScore(unit.arg[1], AllSearchTerms(unit.arg[2])[i]))
       /\ \A j \in 1..Len(AllSearchTerms(unit.arg[2])) :
            j # i => RLess(CandidateScore(unit.arg[1], AllSearchTerms(unit.arg[2])[j]),
                           unit.out[1].matchScore)

Floor == <<1, 5>>

InScoreRange(matches) ==
  \A i \in 1..Len(matches) :
    RLess(Floor, matches[i].matchScore) /\ RLeq(matches[i].matchScore, <<1, 1>>)

\* C15: global score floor.  Every match the scorer emits for an entry,
\* every match a search collects and every result it returns has a
\* matchScore above 0.2 and at most 1; an entry whose best candidate
\* scores 0.2 or less is not emitted.
C15_ScoreFloor ==
  /\ Applied("scoreAdditive") =>
       /\ InScoreRange(unit.out)
       /\ (\A i \in 1..Len(AllSearchTerms(unit.arg[2])) :
             RLeq(CandidateScore(unit.arg[1], AllSearchTerms(unit.arg[2])[i]), Floor))
            => unit.out = <<>>
  /\ Applied("search") =>
       /\ InScoreRange(unit.out[1].found)
       /\ InScoreRange(unit.out[1].value)

\* an entry whose only candidate is a partial match of score 0.17 is
\* left out
C15_Witness ==
  /\ Applied("scoreAdditive")
  /\ unit.out = <<>>
  /\ \E i \in 1..Len(AllSearchTerms(unit.arg[2])) :
       /\ FirstStrategy(unit.arg[1], AllSearchTerms(unit.arg[2])[i]) = "partial"
       /\ RLess(<<0, 1>>, CandidateScore(unit.arg[1], AllSearchTerms(unit.arg[2])[i]))
  /\ \A i \in 1..Len(AllSearchTerms(unit.arg[2])) :
       RLeq(CandidateScore(unit.arg[1], AllSearchTerms(unit.arg[2])[i]), Floor)

(***************************************************************************)
(* Properties of the keyword loop                                          *)
(***************************************************************************)
\* the first six keywords of the extractor's ordering
FirstSix(text) == slice(normalizeAndExtractKeywords(text), 0, MaxScoredKeywords)

MatchedTerms(matches) == { matches[i].matchedTerm : i \in 1..Len(matches) }

\* C16: keyword scoring cap.  Every match a search collects was made by
\* one of the first six keywords the extractor returns for its text, and
\* two texts whose first six keywords agree get the same result on the
\* same catalog.
C16_KeywordCap ==
  Applied("search") =>
    /\ MatchedTerms(unit.out[1].found) \subseteq SeqToSet(FirstSix(unit.arg[1]))
    /\ FirstSix(unit.arg[1]) = FirstSix(unit.arg[2]) => unit.out[1] = unit.out[2]

\* two labels of seven keywords that differ in the seventh, which matches
\* entries of the catalog for one of them: the results are the same, and
\* not empty
C16_Witness ==
  /\ Applied("search")
  /\ Len(normalizeAndExtractKeywords(unit.arg[1])) > MaxScoredKeywords
  /\ Len(normalizeAndExtractKeywords(unit.arg[2])) > MaxScoredKeywords
  /\ FirstSix(unit.arg[1]) = FirstSix(unit.arg[2])
  /\ normalizeAndExtractKeywords(unit.arg[1])[MaxScoredKeywords + 1]
       # normalizeAndExtractKeywords(unit.arg[2])[MaxScoredKeywords + 1]
  /\ findAdditiveMatches(normalizeAndExtractKeywords(unit.arg[1])[MaxScoredKeywords + 1],
                         unit.arg[3]).value # <<>>
  /\ unit.out[1].value # <<>>
  /\ unit.out[1] = unit.out[2]

\* the matches among found that keyword made, in order
MatchesOf(found, keyword) == SelectSeq(found, LAMBDA m : m.matchedTerm = keyword)

\* the number of matches among found made by the keywords before the k-th
AccumulatedBefore(found, keywords, k) ==
  Cardinality({ j \in 1..Len(found) :
                  \E i \in 1..(k - 1) : found[j].matchedTerm = keywords[i] })

\* C17: early exit.  In a search that does not throw, a keyword is scored,
\* and all its matches are collected, when the keywords before it have
\* accumulated fewer than 10 matches, duplicates counted; a keyword that
\* comes after 10 or more accumulated matches contributes nothing.
C17_EarlyExit ==
  (Applied("search") /\ ~unit.out[1].threw) =>
    \A k \in 1..Len(FirstSix(unit.arg[1])) :
      IF AccumulatedBefore(unit.out[1].found, FirstSix(unit.arg[1]), k) >= EarlyExitMatches
      THEN MatchesOf(unit.out[1].found, FirstSix(unit.arg[1])[k]) = <<>>
      ELSE MatchesOf(unit.out[1].found, FirstSix(unit.arg[1])[k])
             = findAdditiveMatches(FirstSix(unit.arg[1])[k], unit.arg[3]).value

\* the second keyword took the number of matches from 8 to 16 and the
\* third, which matches entries of the catalog, was not scored
C17_Witness ==
  /\ Applied("search") /\ ~unit.out[1].threw
  /\ \E k \in 3..Len(FirstSix(unit.arg[1])) :
       /\ AccumulatedBefore(unit.out[1].found, FirstSix(unit.arg[1]), k - 1) < EarlyExitMatches
       /\ AccumulatedBefore(unit.out[1].found, FirstSix(unit.arg[1]), k - 1) > 0
       /\ AccumulatedBefore(unit.out[1].found, FirstSix(unit.arg[1]), k) >= EarlyExitMatches
       /\ findAdditiveMatches(FirstSix(unit.arg[1])[k], unit.arg[3]).value # <<>>
       /\ MatchesOf(unit.out[1].found, FirstSix(unit.arg[1])[k]) = <<>>

(***************************************************************************)
(* Properties of the single strategies                                     *)
(***************************************************************************)
\* C18: normalized-exact rule.  A pair that is no literal match yields a
\* normalized_exact candidate of score 0.95 exactly when the normalised
\* forms are equal and the normalised keyword is longer than 2 characters.
C18_NormalizedExactRule ==
  (Applied("scoreTerm") /\ ~QualifiesExact(unit.arg[1], unit.arg[2])) =>
    /\ (unit.out.found /\ unit.out.bestMatch.matchType = "normalized_exact")
         = (/\ Normalized(unit.arg[2]) = Normalized(unit.arg[1])
            /\ Len(Normalized(unit.arg[1])) > 2)
    /\ unit.out.bestMatch.matchType = "normalized_exact" =>
         unit.out.bestMatch.matchScore = <<19, 20>> /\ unit.out.bestScore = <<19, 20>>
    /\ Len(Normalized(unit.arg[1])) <= 2 => unit.out.bestMatch.matchType # "normalized_exact"

\* a pair whose normalised forms are the same two characters is scored
\* as a partial match
C18_Witness ==
  /\ Applied("scoreTerm") /\ ~QualifiesExact(unit.arg[1], unit.arg[2])
  /\ Normalized(unit.arg[2]) = Normalized(unit.arg[1])
  /\ Len(Normalized(unit.arg[1])) = 2
  /\ unit.out.bestMatch.matchType = "partial"

\* the scores the formula gives on the pairs of forms that are compared
\* and of which one contains the other
ComparedPairScores(keyword, searchTerm) ==
  (IF ContainsRaw(keyword, searchTerm)
   THEN { RatioScore(Min({ Len(keyword), Len(searchTerm) }),
                     Max({ Len(keyword), Len(searchTerm) })) }
   ELSE {})
    \cup
  (IF ContainsNormalized(keyword, searchTerm)
   THEN { RatioScore(Min({ Len(Normalized(keyword)), Len(Normalized(searchTerm)) }),
                     Max({ Len(Normalized(keyword)), Len(Normalized(searchTerm)) })) }
   ELSE {})

\* C19 as stated: partial-match score.  A pair scored as a partial match
\* gets min(0.9, (shorter / longer) * 0.85) with the lengths of the two
\* compared strings of which one contains the other, raw or normalised.
C19_PartialScoreOfComparedStrings ==
  (Applied("scoreTerm") /\ unit.out.bestMatch.matchType = "partial") =>
    unit.out.bestMatch.matchScore \in ComparedPairScores(unit.arg[1], unit.arg[2])

\* C19 as amended: a pair scored as a partial match gets
\* min(0.9, (shorter / longer) * 0.85) where shorter is the least and
\* longer the greatest of four lengths: the lower-cased search term, the
\* keyword and the normalised forms of both.
C19_PartialScoreOfFourLengths ==
  (Applied("scoreTerm") /\ FirstStrategy(unit.arg[1], unit.arg[2]) = "partial") =>
    /\ unit.out.bestMatch.matchType = "partial"
    /\ unit.out.bestMatch.matchScore
         = RatioScore(Min(FourLengths(unit.arg[1], unit.arg[2])),
                      Max(FourLengths(unit.arg[1], unit.arg[2])))

\* a keyword contained in the search term only after normalisation: the
\* score divides the normalised length of the keyword by the raw length
\* of the search term
C19_Witness ==
  /\ Applied("scoreTerm")
  /\ unit.out.bestMatch.matchType = "partial"
  /\ ~ContainsRaw(unit.arg[1], unit.arg[2])
  /\ Len(Normalized(unit.arg[2])) < Len(unit.arg[2])
  /\ unit.out.bestMatch.matchScore
       = RatioScore(Len(Normalized(unit.arg[1])), Len(unit.arg[2]))
  /\ unit.out.bestMatch.matchScore \notin ComparedPairScores(unit.arg[1], unit.arg[2])

ReachesFuzzy(keyword, searchTerm) ==
  FirstStrategy(keyword, searchTerm) \in { "fuzzy", "none" }

\* C20: fuzzy acceptance.  A pair that reaches the fuzzy strategy yields a
\* candidate only if its similarity is at least the threshold, 0.3 for a
\* keyword longer than 4 characters and 0.5 otherwise, and the candidate
\* has score similarity * 0.7.
C20_FuzzyAcceptance ==
  (Applied("scoreTerm") /\ ReachesFuzzy(unit.arg[1], unit.arg[2])) =>
    /\ unit.out.found =>
         /\ unit.out.bestMatch.matchType = "fuzzy"
         /\ RLeq(IF Len(unit.arg[1]) > 4 THEN <<3, 10>> ELSE <<1, 2>>,
                 calculateStringSimilarity(unit.arg[1], unit.arg[2]))
         /\ unit.out.bestMatch.matchScore
              = RMul(calculateStringSimilarity(unit.arg[1], unit.arg[2]), <<7, 10>>)
    /\ RLess(calculateStringSimilarity(unit.arg[1], unit.arg[2]),
             IF Len(unit.arg[1]) > 4 THEN <<3, 10>> ELSE <<1, 2>>) => ~unit.out.found

\* a keyword of four characters is turned down at a similarity of 1/3
C20_Witness ==
  /\ Applied("scoreTerm") /\ ReachesFuzzy(unit.arg[1], unit.arg[2])
  /\ Len(unit.arg[1]) <= 4
  /\ RLeq(<<3, 10>>, calculateStringSimilarity(unit.arg[1], unit.arg[2]))
  /\ RLess(calculateStringSimilarity(unit.arg[1], unit.arg[2]), <<1, 2>>)
  /\ ~unit.out.found

(***************************************************************************)
(* Properties of the extractor's strategies, the stoplist and the cache    *)
(***************************************************************************)
\* the words of a text that are written with spaces inside: the pieces of
\* the prepared text between the delimiters other than white space
SpacedWords(text) ==
  LET pieces == split(NormalizedOf(correctOCRErrors(text)), Delimiters \ WhiteSpace)
  IN  { trim(pieces[i]) : i \in { j \in 1..Len(pieces) : includes(trim(pieces[j]), <<" ">>) } }

\* C21: space-collapsed compounds.  For a word written with a space inside,
\* such as "gu xa" "geom" a space apart, the extractor also returns the
\* word with the space taken out.
C21_SpaceCollapsedCompound ==
  Applied("normalizeAndExtractKeywords") =>
    \A word \in SpacedWords(unit.arg[1]) :
      ReplaceRuns(word, WhiteSpace, <<>>) \in SeqToSet(unit.out)

\* the end of the Hangul run a token starts with, and of the digits behind it
HangulEnd(token) == RunEnd(token, 1, HangulSyllables)
DigitEnd(token) == RunEnd(token, HangulEnd(token) + 1, Digits)

\* Hangul, then digits, then Hangul or nothing, and no more
HasNumberedShape(token) ==
  /\ HangulEnd(token) >= 1
  /\ DigitEnd(token) > HangulEnd(token)
  /\ RunEnd(token, DigitEnd(token) + 1, HangulSyllables) = Len(token)

HangulPrefix(token) == SubSeq(token, 1, HangulEnd(token))
DigitsAndSuffix(token) == SubSeq(token, HangulEnd(token) + 1, Len(token))
HangulSuffix(token) == SubSeq(token, DigitEnd(token) + 1, Len(token))

\* C22 as stated: numbered-additive extraction.  For every token of the
\* shape Hangul, digits, Hangul-or-nothing the candidates hold the token,
\* its Hangul prefix and its digits with the suffix.
C22_NumberedParts ==
  (Applied("numberedParts") /\ HasNumberedShape(unit.arg[1])) =>
    { unit.arg[1], HangulPrefix(unit.arg[1]), DigitsAndSuffix(unit.arg[1]) }
      \subseteq SeqToSet(unit.out)

\* the tokens of that shape among the raw keywords of a text
NumberedTokens(rawKeywords) ==
  { rawKeywords[i] : i \in { j \in 1..Len(rawKeywords) : HasNumberedShape(rawKeywords[j]) } }

\* C22 as amended: for every token of that shape the candidates hold the
\* token, its Hangul prefix when the prefix is longer than one character,
\* and its digits with the suffix when the suffix is not empty; and the
\* extractor returns these candidates unless it cut its list at 15.
C22_NumberedPartsWhenPresent ==
  /\ (Applied("numberedParts") /\ HasNumberedShape(unit.arg[1])) =>
       /\ unit.arg[1] \in SeqToSet(unit.out)
       /\ HangulPrefix(unit.arg[1]) \in SeqToSet(unit.out)
            <=> Len(HangulPrefix(unit.arg[1])) > 1
       /\ DigitsAndSuffix(unit.arg[1]) \in SeqToSet(unit.out)
            <=> Len(HangulSuffix(unit.arg[1])) > 0
  /\ (Applied("normalizeAndExtractKeywords") /\ Len(unit.out) < MaxExtractedKeywords) =>
       \A token \in NumberedTokens(RawKeywords(unit.arg[1])) :
         /\ token \in SeqToSet(unit.out)
         /\ Len(HangulPrefix(token)) > 1 => HangulPrefix(token) \in SeqToSet(unit.out)
         /\ Len(HangulSuffix(token)) > 0 => DigitsAndSuffix(token) \in SeqToSet(unit.out)

\* a token with a suffix and a prefix of two characters yields all three
\* candidates
C22_Witness ==
  /\ Applied("numberedParts") /\ HasNumberedShape(unit.arg[1])
  /\ Len(HangulPrefix(unit.arg[1])) > 1 /\ Len(HangulSuffix(unit.arg[1])) > 0
  /\ unit.out = << unit.arg[1], HangulPrefix(unit.arg[1]), DigitsAndSuffix(unit.arg[1]) >>

\* C23: stoplist and length filter.  No keyword the extractor returns has
\* one character or none, and none is a word of the stoplist, whichever
\* strategy produced it.
C23_StoplistAndLengthFilter ==
  Applied("normalizeAndExtractKeywords") =>
    \A k \in 1..Len(unit.out) :
      /\ Len(unit.out[k]) > 1
      /\ ~isCommonWord(unit.out[k])

\* a word that contains a whitelisted term or is contained in one
OverlapsWhitelist(word) ==
  \E k \in 1..Len(importantAdditiveKeywords) :
    \/ includes(toLowerCase(word), importantAdditiveKeywords[k])
    \/ includes(importantAdditiveKeywords[k], toLowerCase(word))

\* C24: whitelist priority.  isCommonWord answers false for every word
\* that contains a whitelisted term or is contained in one, whether or not
\* the word is on the stoplist; a word outside the whitelist is answered
\* by the stoplist.
C24_WhitelistPriority ==
  Applied("isCommonWord") =>
    /\ OverlapsWhitelist(unit.arg[1]) => unit.out = FALSE
    /\ ~OverlapsWhitelist(unit.arg[1]) =>
         (unit.out <=> toLowerCase(unit.arg[1]) \in SeqToSet(commonWords))

\* a single character contained in a whitelisted term is kept
C24_Witness ==
  /\ Applied("isCommonWord")
  /\ Len(unit.arg[1]) = 1 /\ OverlapsWhitelist(unit.arg[1])
  /\ unit.out = FALSE

\* C25 as stated: static snapshot only on failure.  The cache takes the
\* bundled snapshot only when the live fetch fails; when the fetch
\* completes the cache takes what the store returned and not the snapshot.
C25_SnapshotOnlyOnFailure ==
  [][additivesCache' # additivesCache =>
       \/ \E p \in 1..MaxPromises, result \in FetchResults :
            /\ FetchSettles(p, result) /\ result.kind = "ok"
            /\ additivesCache' = << result.docs >>
            /\ additivesCache' # << additiveData >>
       \/ \E p \in 1..MaxPromises, result \in FetchResults :
            /\ FetchSettles(p, result) /\ result.kind = "rejected"
            /\ additivesCache' = << additiveData >>
       \/ \E c \in Callers, input \in Inputs :
            /\ Call(c, input, TRUE)
            /\ additivesCache' = << additiveData >>]_vars

\* C25 as amended: the cache takes the bundled snapshot only when the live
\* fetch fails or completes without documents; when the fetch completes
\* with at least one document the cache takes what the store returned.
C25_SnapshotOnFailureOrEmpty ==
  [][additivesCache' # additivesCache =>
       \/ \E p \in 1..MaxPromises, result \in FetchResults :
            /\ FetchSettles(p, result) /\ result.kind = "ok" /\ result.docs # <<>>
            /\ additivesCache' = << result.docs >>
       \/ \E p \in 1..MaxPromises, result \in FetchResults :
            /\ FetchSettles(p, result)
            /\ result.kind = "rejected" \/ result.docs = <<>>
            /\ additivesCache' = << additiveData >>
       \/ \E c \in Callers, input \in Inputs :
            /\ Call(c, input, TRUE)
            /\ additivesCache' = << additiveData >>]_vars

\* the fetch completed without documents and the snapshot is the cache
C25_Witness ==
  \E p \in 1..Len(promises) :
    /\ promises[p].fetch = "empty"
    /\ promises[p].state = "fulfilled"
    /\ additivesCache = << additiveData >>

(***************************************************************************)
(* Properties of the loop over the catalog                                 *)
(***************************************************************************)
\* the entries of a catalog one of whose search terms equals the keyword
ExactEntries(keyword, additives) ==
  { i \in 1..Len(additives) :
      ~EntryThrows(additives[i]) /\ toLowerCase(keyword) \in SearchTermsOf(additives[i]) }

\* C26 as stated: exact-match short-circuit.  Once a keyword has met an
\* entry with a search term equal to it, no entry further on in the
\* catalog is compared with the keyword: none of them is among the matches.
C26_ExactShortCircuitsEntries ==
  (Applied("findAdditiveMatches") /\ ~unit.out.threw) =>
    \A i \in ExactEntries(unit.arg[1], unit.arg[2]) :
      \A j \in (i + 1)..Len(unit.arg[2]) :
        unit.arg[2][j].id \notin IdsOf(unit.out.value)

\* the search terms of an entry that are compared with the keyword: those
\* with no term equal to the keyword before them
TermsCompared(keyword, additive) ==
  { t \in 1..Len(AllSearchTerms(additive)) :
      \A u \in 1..(t - 1) : ~QualifiesExact(keyword, AllSearchTerms(additive)[u]) }

\* a compared term other than the equal one lifts the best score over the floor
LiftsOverFloor(keyword, additive) ==
  \E t \in TermsCompared(keyword, additive) :
    /\ ~QualifiesExact(keyword, AllSearchTerms(additive)[t])
    /\ RLess(Floor, CandidateScore(keyword, AllSearchTerms(additive)[t]))

\* C26 as amended: a search term equal to the keyword ends the comparisons
\* of that entry only.  The terms behind it neither change the entry's
\* match, which is exact with score 1, nor decide whether it is emitted;
\* every other entry of the catalog is compared with the keyword as if the
\* exact hit were not there.
C26_ExactShortCircuitsTerms ==
  /\ (Applied("scoreAdditive")
        /\ toLowerCase(unit.arg[1]) \in SearchTermsOf(unit.arg[2])) =>
       /\ unit.out # <<>> <=> LiftsOverFloor(unit.arg[1], unit.arg[2])
       /\ unit.out # <<>> =>
            unit.out[1].matchType = "exact" /\ unit.out[1].matchScore = <<1, 1>>
  /\ (Applied("findAdditiveMatches") /\ ~unit.out.threw) =>
       \A j \in 1..Len(unit.arg[2]) :
         unit.arg[2][j].id \in IdsOf(unit.out.value)
           <=> LiftsOverFloor(unit.arg[1], unit.arg[2][j])

\* the first entry of the catalog has a name equal to the keyword, and
\* entries behind it are among the matches
C26_Witness ==
  /\ Applied("findAdditiveMatches") /\ ~unit.out.threw
  /\ 1 \in ExactEntries(unit.arg[1], unit.arg[2])
  /\ \E j \in 2..Len(unit.arg[2]) : unit.arg[2][j].id \in IdsOf(unit.out.value)

Metadata == { "matchType", "matchScore", "matchedTerm" }

\* an entry as the store returned it or the snapshot holds it
IsPlain(additive) == Metadata \cap DOMAIN additive = {}

\* result is a copy of a cached entry with the match metadata added
IsCopyOfCached(result) ==
  \E i \in 1..Len(additivesCache[1]) :
    /\ DOMAIN result = DOMAIN additivesCache[1][i] \cup Metadata
    /\ \A f \in DOMAIN additivesCache[1][i] : result[f] = additivesCache[1][i][f]

\* C27: the catalog is read-only for searches.  No search changes the
\* cached array, its order or a field of a cached entry; no cached entry
\* carries matchType, matchScore or matchedTerm, which are found on the
\* results only, and these are copies of cached entries.
C27_CatalogReadOnly ==
  [][/\ \A c \in Callers : Resume(c) => additivesCache' = additivesCache
     /\ (additivesCache # <<>> =>
            /\ \A i \in 1..Len(additivesCache[1]) : IsPlain(additivesCache[1][i])
            /\ \A c \in Callers :
                 \A k \in 1..Len(callers[c].outcome.value) :
                   IsCopyOfCached(callers[c].outcome.value[k]))']_vars

\* a search of the loaded cache has returned results
C27_Witness ==
  \E c \in Callers :
    /\ Settled(c)
    /\ callers[c].allAdditives = additivesCache
    /\ callers[c].outcome.value # <<>>
    /\ callers[c].foundAdditives # <<>>

(***************************************************************************)
(* Properties of the scores by match type                                  *)
(***************************************************************************)
\* |A \cap B| / |A \cup B| over the characters of the normalised forms
JaccardOf(keyword, searchTerm) ==
  Frac(Cardinality(CharSet(Normalized(keyword)) \cap CharSet(Normalized(searchTerm))),
       Cardinality(CharSet(Normalized(keyword)) \cup CharSet(Normalized(searchTerm))))

\* exact before normalized exact before partial and fuzzy
Stratum(matchType) ==
  IF matchType = "exact" THEN 0 ELSE IF matchType = "normalized_exact" THEN 1 ELSE 2

SortedByStratum(results) ==
  \A i, j \in 1..Len(results) :
    i < j => Stratum(results[i].matchType) <= Stratum(results[j].matchType)

\* what the claim says of every match but the strict bound of the fuzzy score
StratifiedButFuzzyBound ==
  /\ (Applied("scoreTerm") /\ unit.out.bestMatch.matchType = "fuzzy") =>
       /\ Normalized(unit.arg[1]) # Normalized(unit.arg[2])
       /\ ~ContainsNormalized(unit.arg[1], unit.arg[2])
       /\ unit.out.bestMatch.matchScore
            = RMul(JaccardOf(unit.arg[1], unit.arg[2]), <<7, 10>>)
  /\ (Applied("scoreTerm") /\ unit.out.bestMatch.matchType = "partial") =>
       RLeq(unit.out.bestMatch.matchScore, <<17, 20>>)
  /\ (Applied("scoreTerm") /\ unit.out.bestMatch.matchType = "normalized_exact") =>
       unit.out.bestMatch.matchScore = <<19, 20>>
  /\ (Applied("scoreTerm") /\ unit.out.bestMatch.matchType = "exact") =>
       unit.out.bestMatch.matchScore = <<1, 1>>
  /\ Applied("search") =>
       SortedByStratum(unit.out[1].value) /\ SortedByStratum(unit.out[2].value)

\* C28 as stated: score stratification by match type.  A fuzzy match is
\* made only of a pair whose normalised forms differ and do not contain one
\* another, and its score is 0.7 times the Jaccard index, below 0.7; a
\* partial score is at most 0.85, a normalized exact one 0.95 and an exact
\* one 1, and the results of a search come exact first, normalized exact
\* next, partial and fuzzy last.
C28_ScoreStratification ==
  /\ StratifiedButFuzzyBound
  /\ (Applied("scoreTerm") /\ unit.out.bestMatch.matchType = "fuzzy") =>
       RLess(unit.out.bestMatch.matchScore, <<7, 10>>)
  /\ (Applied("scoreAdditive") /\ unit.out # <<>> /\ unit.out[1].matchType = "fuzzy") =>
       RLess(unit.out[1].matchScore, <<7, 10>>)

\* C28 as amended: the same with a fuzzy score of at most 0.7, which it
\* reaches when the two normalised forms are made of the same characters.
C28_ScoreStratificationAtMost ==
  /\ StratifiedButFuzzyBound
  /\ (Applied("scoreTerm") /\ unit.out.bestMatch.matchType = "fuzzy") =>
       RLeq(unit.out.bestMatch.matchScore, <<7, 10>>)
  /\ (Applied("scoreAdditive") /\ unit.out # <<>> /\ unit.out[1].matchType = "fuzzy") =>
       RLeq(unit.out[1].matchScore, <<7, 10>>)

\* a keyword made of the characters of the search term in another order is
\* a fuzzy match of score 0.7
C28_Witness ==
  /\ Applied("scoreTerm")
  /\ unit.out.bestMatch.matchType = "fuzzy"
  /\ CharSet(Normalized(unit.arg[1])) = CharSet(Normalized(unit.arg[2]))
  /\ unit.out.bestMatch.matchScore = <<7, 10>>

(***************************************************************************)
(* Properties of the search on a malformed catalog                         *)
(***************************************************************************)
HasMalformedEntry(additives) == \E i \in 1..Len(additives) : EntryThrows(additives[i])

\* C29: one malformed entry blanks every search.  When an entry of the
\* catalog has no name or no aliases, every search of a text with at least
\* one keyword raises inside its try block and resolves to the empty
\* array, with nothing left of what it had collected.
C29_MalformedEntryBlanksSearch ==
  (Applied("search") /\ HasMalformedEntry(unit.arg[3])
     /\ normalizeAndExtractKeywords(unit.arg[1]) # <<>>) =>
    /\ unit.out[1].threw
    /\ unit.out[1].found = <<>>
    /\ SearchSettles(unit.out[1]).state = "fulfilled"
    /\ SearchSettles(unit.out[1]).value = <<>>

\* the well-formed entries of a catalog
WellFormed(additives) == SelectSeq(additives, LAMBDA additive : ~EntryThrows(additive))

\* the search is blank although its text has results on the well-formed
\* entries of the same catalog
C29_Witness ==
  /\ Applied("search") /\ HasMalformedEntry(unit.arg[3])
  /\ SearchSettles(unit.out[1]).value = <<>>
  /\ WellFormed(unit.arg[3]) \in UnitCatalogs
  /\ UnitSearches[unit.arg[1], WellFormed(unit.arg[3])].value # <<>>

(***************************************************************************)
(* Properties of the image-search jobs                                     *)
(***************************************************************************)
Writes == { "set processing", "update completed", "update failed" }
WriteCalls == { "call set processing", "call update completed", "call update failed" }

\* the writes applied to the document of a job, in order
AppliedWrites(jb) == SelectSeq(jb.log, LAMBDA e : e \in Writes)

\* event e comes before position k of the log
Before(jb, e, k) == \E i \in 1..(k - 1) : jb.log[i] = e

\* C30: image-search job lifecycle.  The document is written with status
\* processing before the jobId is sent and before the background
\* processing starts; after that at most one write is applied to it, to
\* completed or to failed, and once it is completed or failed no write is
\* called or applied any more; failed is written only when the OCR, the
\* search or the write of completed raised.
C30_JobLifecycle ==
  \A j \in Jobs :
    /\ \A k \in 1..Len(job[j].log) :
         /\ job[j].log[k] \in { "respond jobId", "start background" } =>
              Before(job[j], "set processing", k)
         /\ job[j].log[k] \in Writes \cup WriteCalls =>
              ~Before(job[j], "update completed", k) /\ ~Before(job[j], "update failed", k)
    /\ job[j].response = "jobId" => job[j].status # "none"
    /\ Len(AppliedWrites(job[j])) <= 2
    /\ AppliedWrites(job[j]) # <<>> => AppliedWrites(job[j])[1] = "set processing"
    /\ Len(AppliedWrites(job[j])) = 2 =>
         AppliedWrites(job[j])[2] \in { "update completed", "update failed" }
    /\ job[j].status =
         (IF AppliedWrites(job[j]) = <<>> THEN "none"
          ELSE IF Len(AppliedWrites(job[j])) = 1 THEN "processing"
          ELSE IF AppliedWrites(job[j])[2] = "update completed" THEN "completed"
          ELSE "failed")
    /\ job[j].status = "failed" => job[j].threw \in { "ocr", "search", "write" }
    /\ job[j].status = "completed" => job[j].threw = "none"

\* a job whose write of completed raised has become failed, while another
\* is completed
C30_Witness ==
  \E j, other \in Jobs :
    /\ job[j].status = "failed" /\ job[j].threw = "write" /\ job[j].response = "jobId"
    /\ job[other].status = "completed"
====
